---- MODULE Spec2Model ----
(***************************************************************************)
(* A model of the SpecifyPlus MCP server (specifyplus-mcp-server/src):     *)
(* CommandRegistry, PromptHandler, CommandLoader, validate_command_name,   *)
(* CommandFileHandler and FileWatcher, and of the task service of the       *)
(* todo console application (src/todo/services/task_service.py).           *)
(*                                                                         *)
(* Text is a sequence of code points, so that ordering, prefixes and        *)
(* suffixes are computed the way Python computes them on str.              *)
(*                                                                         *)
(* Time is a discrete clock.  A statement takes no time; the clock moves   *)
(* only while a reload callback runs (file I/O), a threading.Timer or the  *)
(* observer thread waits, or join() waits.  Statements of different        *)
(* threads interleave in every order.                                      *)
(***************************************************************************)
EXTENDS Naturals, Integers, Sequences, FiniteSets, TLC

VARIABLES
    \* ---- CommandRegistry (registry.py) and the threads that call it
    registry,       \* CommandRegistry._registry: name -> CommandDefinition
    lock,           \* CommandRegistry._lock: owning thread, 0 when free
    rpc,            \* per thread: position inside a registry call
    rop,            \* per thread: the call in progress
    rres,           \* per thread: value returned by the last completed step
    opsDone,        \* number of calls started so far
    ghost,          \* the abstract map the calls so far should have produced
    \* ---- PromptHandler (handler.py)
    hpc,            \* per thread: position inside process_prompt
    hreq,           \* per thread: process_prompt's arguments
    hres,           \* per thread: what the last process_prompt returned or raised
    hseen,          \* per thread: the abstract map at process_prompt's get and at its list
    \* ---- FileWatcher and CommandFileHandler (watcher.py)
    now,            \* time.time()
    disk,           \* the commands directory: file name -> content
    observer,       \* FileWatcher.observer: 0 is None, else the handler it dispatches to
    event_handler,  \* FileWatcher.event_handler: 0 is None
    starts,         \* CommandFileHandler objects constructed so far
    mpc,            \* the thread calling FileWatcher.start/stop: position and join deadline
    obs,            \* per handler: its observer thread
    queue,          \* per handler: events its observer has not dispatched yet
    last_reload_time, \* per handler: CommandFileHandler._last_reload_time
    timer_ref,      \* per handler: CommandFileHandler._timer, 0 is None
    pending_reload, \* per handler: CommandFileHandler._pending_reload
    epc,            \* per handler: position of the thread inside on_created/modified/deleted
    ect,            \* per handler: current_time of _trigger_immediate_reload
    esnap,          \* per handler: what the callback running on the event thread loaded
    timers,         \* per threading.Timer: state, deadline, owner, loaded snapshot
    calls,          \* per handler: reload_callback invocations started so far
    emitted,        \* file system events produced so far
    hist,           \* history of the run, read by the claims only
    \* ---- CommandLoader (loader.py) and validate_command_name (validators.py)
    entry,          \* what the file system holds at commands_dir
    loader,         \* the CommandLoader object and the position of the thread using it
    nameCheck,      \* the last validate_command_name call: argument and outcome
    \* ---- the server module (server.py)
    prompts,        \* names that register_prompts has registered with FastMCP
    \* ---- the todo task service (src/todo/services/task_service.py)
    tasks,          \* the module's dict tasks: id -> Task
    next_id,        \* the module's counter next_id
    lastCall,       \* the last call of the service: function, arguments, outcome
    issued          \* ids that create_task has returned so far, read by the claims only

regRest == <<lock, rpc, rop, rres, opsDone, ghost, hpc, hreq, hres, hseen>>
regVars == <<registry, regRest>>
watchVars == <<now, disk, observer, event_handler, starts, mpc, obs, queue,
               last_reload_time, timer_ref, pending_reload, epc, ect, esnap,
               timers, calls, emitted, hist>>
loadVars == <<entry, loader, nameCheck>>
serverVars == <<prompts>>
todoVars == <<tasks, next_id, lastCall, issued>>
vars == <<regVars, watchVars, loadVars, serverVars, todoVars>>

----------------------------------------------------------------------------
(* Text *)

\* Python's None where a record or no value is expected.
None == [kind |-> "None"]
\* Python's None where a str is expected: no text holds the code point -1.
NoText == <<-1>>

\* "$ARGUMENTS"
ArgToken == <<36, 65, 82, 71, 85, 77, 69, 78, 84, 83>>
\* ".md"
MdSuffix == <<46, 109, 100>>

\* Python's str < str: code point by code point, a proper prefix first.
LexLess(s, t) ==
    \E i \in 1..(Len(t)) :
        /\ \A j \in 1..(i - 1) : j <= Len(s) /\ s[j] = t[j]
        /\ \/ i = Len(s) + 1
           \/ i <= Len(s) /\ s[i] < t[i]

\* sorted(S) for a set of strings.
RECURSIVE SortedSeq(_)
SortedSeq(S) ==
    IF S = {} THEN << >>
    ELSE LET m == CHOOSE x \in S : \A y \in S : y = x \/ LexLess(x, y)
         IN  <<m>> \o SortedSeq(S \ {m})

\* s.startswith(p) at offset i (1-based).
MatchAt(s, p, i) ==
    /\ i + Len(p) - 1 <= Len(s)
    /\ \A k \in 1..Len(p) : s[i + k - 1] = p[k]

\* p in s
Contains(s, p) == \E i \in 1..(Len(s) + 1) : MatchAt(s, p, i)

\* s.endswith(p)
EndsWith(s, p) == Len(s) >= Len(p) /\ MatchAt(s, p, Len(s) - Len(p) + 1)

\* s.find(p, i): index of the first occurrence of p at or after i, 0 when none.
Find(s, p, i) ==
    LET M == {j \in i..Len(s) : MatchAt(s, p, j)}
    IN  IF M = {} THEN 0 ELSE CHOOSE j \in M : \A k \in M : j <= k

\* s.replace(old, new, 1): only the first occurrence is replaced.
ReplaceFirstFrom(s, old, new, i) ==
    LET j == Find(s, old, i)
    IN  IF j = 0 THEN SubSeq(s, i, Len(s))
        ELSE SubSeq(s, i, j - 1) \o new \o SubSeq(s, j + Len(old), Len(s))

\* s.replace(old, new): left to right, non-overlapping, inserted text not rescanned.
RECURSIVE ReplaceFrom(_, _, _, _)
ReplaceFrom(s, old, new, i) ==
    LET j == Find(s, old, i)
    IN  IF j = 0 THEN SubSeq(s, i, Len(s))
        ELSE SubSeq(s, i, j - 1) \o new \o ReplaceFrom(s, old, new, j + Len(old))

Replace(s, old, new) == ReplaceFrom(s, old, new, 1)

----------------------------------------------------------------------------
(* CommandDefinition (models.py) *)

\* Command names "a", "a.b", "b".
NameA  == <<97>>
NameAB == <<97, 46, 98>>
NameB  == <<98>>
Names  == {NameA, NameAB, NameB}

\* Template bodies "hi" and "x$ARGUMENTS".
BodyPlain == <<104, 105>>
BodyArgs  == <<120>> \o ArgToken
Bodies    == {BodyPlain, BodyArgs}

\* A record built without the flag: has_arguments keeps its default.
MkCommandDefaultFlag(n, body) ==
    [name |-> n, content |-> body, has_arguments |-> FALSE]

\* loader.py:95 sets has_arguments from the content.
MkCommand(n, body) ==
    [name |-> n, content |-> body, has_arguments |-> Contains(body, ArgToken)]

Commands == {MkCommand(n, b) : n \in Names, b \in Bodies}

EmptyMap == [n \in {} |-> None]

\* A dict built from a set of records with pairwise distinct names.
MapOf(S) == [n \in {c.name : c \in S} |-> CHOOSE c \in S : c.name = n]

\* The names callers look up.
LookupNames == {NameA, NameB}

\* The records handed to register.
RegisterArgs == {MkCommand(NameA, BodyArgs), MkCommand(NameAB, BodyPlain)}

\* The maps handed to update_all.
CandidateMaps ==
    { MapOf({MkCommand(NameA, BodyPlain)}),
      MapOf({MkCommand(NameAB, BodyArgs), MkCommand(NameB, BodyPlain)}),
      MapOf({MkCommand(NameA, BodyArgs), MkCommand(NameB, BodyArgs)}) }

----------------------------------------------------------------------------
(* CommandRegistry (registry.py) *)

NumThreads == 2
Threads == 1..NumThreads
MaxOps == 3

\* dict.get(name)
DictGet(d, n) == IF n \in DOMAIN d THEN d[n] ELSE None

\* d.setdefault(k, v): a mutation of register that keeps an existing entry.
DictPutIfAbsent(d, k, v) == [n \in DOMAIN d \cup {k} |-> IF n \in DOMAIN d THEN d[n] ELSE v]

\* d[k] = v
DictPut(d, k, v) == [n \in DOMAIN d \cup {k} |-> IF n = k THEN v ELSE d[n]]

\* d.update(e): a mutation of update_all that merges instead of replacing.
DictMerged(d, e) == [n \in DOMAIN d \cup DOMAIN e |-> IF n \in DOMAIN e THEN e[n] ELSE d[n]]

\* update_all: self._registry = dict(commands)
UpdateAllMap(old, commands) == [n \in DOMAIN commands |-> commands[n]]

\* list(d.keys()) in another order than sorted(): a mutation of list_commands.
RECURSIVE KeysDescending(_)
KeysDescending(d) ==
    IF DOMAIN d = {} THEN << >>
    ELSE LET m == CHOOSE x \in DOMAIN d : \A y \in DOMAIN d : y = x \/ LexLess(y, x)
         IN  <<m>> \o KeysDescending([n \in DOMAIN d \ {m} |-> d[n]])

\* list_commands: sorted(self._registry.keys())
ListCommandsOf(d) == SortedSeq(DOMAIN d)

\* count: len(self._registry)
CountOf(d) == Cardinality(DOMAIN d)

NoCall == [op |-> "none", arg |-> None]
NoRequest == [command_name |-> << >>, user_input |-> NoText]
NotSeen == [get |-> EmptyMap, list |-> EmptyMap]

\* A thread enters a registry method: it is about to run `with self._lock`.
Enter(t, op, arg) ==
    /\ rpc' = [rpc EXCEPT ![t] = "acquire"]
    /\ rop' = [rop EXCEPT ![t] = [op |-> op, arg |-> arg]]

AtTop(t) == rpc[t] = "idle" /\ hpc[t] = "none" /\ opsDone < MaxOps

\* The caller drops what its previous process_prompt returned.
Forget(t) ==
    /\ hreq' = [hreq EXCEPT ![t] = NoRequest]
    /\ hres' = [hres EXCEPT ![t] = None]
    /\ hseen' = [hseen EXCEPT ![t] = NotSeen]

CallRegister(t) ==
    /\ AtTop(t)
    /\ \E c \in RegisterArgs : Enter(t, "register", c)
    /\ opsDone' = opsDone + 1
    /\ Forget(t)
    /\ UNCHANGED <<registry, lock, rres, ghost, hpc, watchVars, loadVars, serverVars, todoVars>>

CallGet(t) ==
    /\ AtTop(t)
    /\ \E n \in LookupNames : Enter(t, "get", n)
    /\ opsDone' = opsDone + 1
    /\ Forget(t)
    /\ UNCHANGED <<registry, lock, rres, ghost, hpc, watchVars, loadVars, serverVars, todoVars>>

CallListCommands(t) ==
    /\ AtTop(t)
    /\ Enter(t, "list_commands", None)
    /\ opsDone' = opsDone + 1
    /\ Forget(t)
    /\ UNCHANGED <<registry, lock, rres, ghost, hpc, watchVars, loadVars, serverVars, todoVars>>

CallUpdateAll(t) ==
    /\ AtTop(t)
    /\ \E m \in CandidateMaps : Enter(t, "update_all", m)
    /\ opsDone' = opsDone + 1
    /\ Forget(t)
    /\ UNCHANGED <<registry, lock, rres, ghost, hpc, watchVars, loadVars, serverVars, todoVars>>

CallClear(t) ==
    /\ AtTop(t)
    /\ Enter(t, "clear", None)
    /\ opsDone' = opsDone + 1
    /\ Forget(t)
    /\ UNCHANGED <<registry, lock, rres, ghost, hpc, watchVars, loadVars, serverVars, todoVars>>

CallCount(t) ==
    /\ AtTop(t)
    /\ Enter(t, "count", None)
    /\ opsDone' = opsDone + 1
    /\ Forget(t)
    /\ UNCHANGED <<registry, lock, rres, ghost, hpc, watchVars, loadVars, serverVars, todoVars>>

\* A lock that every thread may take at any time.
LockAlwaysAvailable(t) == TRUE

\* threading.RLock.acquire: free, or already owned by this thread.
LockAvailable(t) == lock = 0 \/ lock = t

Acquire(t) ==
    /\ rpc[t] = "acquire"
    /\ LockAvailable(t)
    /\ lock' = t
    /\ rpc' = [rpc EXCEPT ![t] = "locked"]
    /\ UNCHANGED <<registry, rop, rres, opsDone, ghost, hpc, hreq, hres, hseen, watchVars, loadVars, serverVars, todoVars>>

InBody(t, op) == rpc[t] = "locked" /\ lock = t /\ rop[t].op = op

Register(t) ==
    /\ InBody(t, "register")
    /\ registry' = DictPut(registry, rop[t].arg.name, rop[t].arg)
    /\ ghost' = DictPut(ghost, rop[t].arg.name, rop[t].arg)
    /\ rres' = [rres EXCEPT ![t] = None]
    /\ rpc' = [rpc EXCEPT ![t] = "release"]
    /\ UNCHANGED <<lock, rop, opsDone, hpc, hreq, hres, hseen, watchVars, loadVars, serverVars, todoVars>>

Get(t) ==
    /\ InBody(t, "get")
    /\ rres' = [rres EXCEPT ![t] = DictGet(registry, rop[t].arg)]
    /\ rpc' = [rpc EXCEPT ![t] = "release"]
    /\ hseen' = [hseen EXCEPT ![t] = IF hpc[t] = "get" THEN [@ EXCEPT !.get = ghost] ELSE @]
    /\ UNCHANGED <<registry, lock, rop, opsDone, ghost, hpc, hreq, hres, watchVars, loadVars, serverVars, todoVars>>

ListCommands(t) ==
    /\ InBody(t, "list_commands")
    /\ rres' = [rres EXCEPT ![t] = ListCommandsOf(registry)]
    /\ rpc' = [rpc EXCEPT ![t] = "release"]
    /\ hseen' = [hseen EXCEPT ![t] = IF hpc[t] = "list" THEN [@ EXCEPT !.list = ghost] ELSE @]
    /\ UNCHANGED <<registry, lock, rop, opsDone, ghost, hpc, hreq, hres, watchVars, loadVars, serverVars, todoVars>>

UpdateAll(t) ==
    /\ InBody(t, "update_all")
    /\ registry' = UpdateAllMap(registry, rop[t].arg)
    /\ ghost' = rop[t].arg
    /\ rres' = [rres EXCEPT ![t] = None]
    /\ rpc' = [rpc EXCEPT ![t] = "release"]
    /\ UNCHANGED <<lock, rop, opsDone, hpc, hreq, hres, hseen, watchVars, loadVars, serverVars, todoVars>>

Clear(t) ==
    /\ InBody(t, "clear")
    /\ registry' = EmptyMap
    /\ ghost' = EmptyMap
    /\ rres' = [rres EXCEPT ![t] = None]
    /\ rpc' = [rpc EXCEPT ![t] = "release"]
    /\ UNCHANGED <<lock, rop, opsDone, hpc, hreq, hres, hseen, watchVars, loadVars, serverVars, todoVars>>

Count(t) ==
    /\ InBody(t, "count")
    /\ rres' = [rres EXCEPT ![t] = CountOf(registry)]
    /\ rpc' = [rpc EXCEPT ![t] = "release"]
    /\ UNCHANGED <<registry, lock, rop, opsDone, ghost, hpc, hreq, hres, hseen, watchVars, loadVars, serverVars, todoVars>>

\* Leaving `with self._lock`: the method returns rres[t].
Release(t) ==
    /\ rpc[t] = "release"
    /\ lock = t
    /\ lock' = 0
    /\ rpc' = [rpc EXCEPT ![t] = "idle"]
    /\ rop' = [rop EXCEPT ![t] = NoCall]
    /\ rres' = [rres EXCEPT ![t] = IF hpc[t] = "none" THEN None ELSE rres[t]]
    /\ UNCHANGED <<registry, opsDone, ghost, hpc, hreq, hres, hseen, watchVars, loadVars, serverVars, todoVars>>

----------------------------------------------------------------------------
(* PromptHandler (handler.py) *)

MAX_INPUT_SIZE_BYTES == 102400

\* The texts a caller passes as user_input: "$ARGUMENTS".
Inputs == {ArgToken}

\* len(text)
CharLen(s) == Len(s)

\* len(text.encode("utf-8")): one byte per code point, one more from U+0080,
\* from U+0800 and from U+10000.
Utf8Len(s) ==
    Len(s) + Len(SelectSeq(s, LAMBDA c : c >= 128))
           + Len(SelectSeq(s, LAMBDA c : c >= 2048))
           + Len(SelectSeq(s, LAMBDA c : c >= 65536))

\* Index of the first "}" at or after i, 0 when there is none.
FirstCloseBrace(s, i) == Find(s, <<125>>, i)

\* re.sub(r"\$\{([^}]+)\}", r"\\${\1}", s): the matches are taken left to right
\* without overlap, each from "${" to the first "}" after at least one other
\* character, and every match gets a backslash in front.
RECURSIVE EscapeBracesFrom(_, _)
EscapeBracesFrom(s, i) ==
    LET M == {k \in i..Len(s) : /\ MatchAt(s, <<36, 123>>, k)
                                /\ FirstCloseBrace(s, k + 2) > k + 2}
    IN  IF M = {} THEN SubSeq(s, i, Len(s))
        ELSE LET k == CHOOSE x \in M : \A y \in M : x <= y
                 j == FirstCloseBrace(s, k + 2)
             IN  SubSeq(s, i, k - 1) \o <<92>> \o SubSeq(s, k, j)
                    \o EscapeBracesFrom(s, j + 1)

sanitize_input(text) ==
    EscapeBracesFrom(Replace(text, ArgToken, <<92>> \o ArgToken), 1)

CommandNotFoundError(command_name, available) ==
    [kind |-> "CommandNotFoundError", command_name |-> command_name,
     available_commands |-> available]

InputTooLargeError(size, max_size) ==
    [kind |-> "InputTooLargeError", size |-> size, max_size |-> max_size]

Returned(text) == [kind |-> "return", text |-> text]

\* process_prompt substituting whenever an input is present.
ProcessIgnoringFlag(cmd, user_input) ==
    IF user_input # NoText /\ Utf8Len(user_input) > MAX_INPUT_SIZE_BYTES
    THEN InputTooLargeError(Utf8Len(user_input), MAX_INPUT_SIZE_BYTES)
    ELSE IF user_input # NoText
         THEN Returned(Replace(cmd.content, ArgToken, sanitize_input(user_input)))
         ELSE Returned(cmd.content)

\* process_prompt sanitising the input a second time before substituting.
ProcessSanitizingTwice(cmd, user_input) ==
    IF user_input # NoText /\ Utf8Len(user_input) > MAX_INPUT_SIZE_BYTES
    THEN InputTooLargeError(Utf8Len(user_input), MAX_INPUT_SIZE_BYTES)
    ELSE IF cmd.has_arguments /\ user_input # NoText
         THEN Returned(Replace(cmd.content, ArgToken,
                               sanitize_input(sanitize_input(user_input))))
         ELSE Returned(cmd.content)

\* process_prompt looking at the flag before it looks at the size of the input.
ProcessFlagFirst(cmd, user_input) ==
    IF ~cmd.has_arguments THEN Returned(cmd.content)
    ELSE IF user_input # NoText /\ Utf8Len(user_input) > MAX_INPUT_SIZE_BYTES
    THEN InputTooLargeError(Utf8Len(user_input), MAX_INPUT_SIZE_BYTES)
    ELSE IF user_input # NoText
         THEN Returned(Replace(cmd.content, ArgToken, sanitize_input(user_input)))
         ELSE Returned(cmd.content)

\* process_prompt once the registry returned a record: handler.py 97-126.
ProcessFound(cmd, user_input) ==
    IF user_input # NoText /\ Utf8Len(user_input) > MAX_INPUT_SIZE_BYTES
    THEN InputTooLargeError(Utf8Len(user_input), MAX_INPUT_SIZE_BYTES)
    ELSE IF cmd.has_arguments /\ user_input # NoText
         THEN Returned(Replace(cmd.content, ArgToken, sanitize_input(user_input)))
         ELSE Returned(cmd.content)

\* process_prompt starts: cmd = self.registry.get(command_name)
ProcessPromptCall(t) ==
    /\ AtTop(t)
    /\ \E n \in LookupNames, inp \in Inputs \cup {NoText} :
          /\ hreq' = [hreq EXCEPT ![t] = [command_name |-> n, user_input |-> inp]]
          /\ Enter(t, "get", n)
    /\ hpc' = [hpc EXCEPT ![t] = "get"]
    /\ hres' = [hres EXCEPT ![t] = None]
    /\ hseen' = [hseen EXCEPT ![t] = NotSeen]
    /\ opsDone' = opsDone + 1
    /\ UNCHANGED <<registry, lock, rres, ghost, watchVars, loadVars, serverVars, todoVars>>

\* process_prompt reading the body from the registry a second time.
ProcessPromptFoundRereading(t) ==
    /\ hpc[t] = "get" /\ rpc[t] = "idle"
    /\ rres[t] # None
    /\ hres' = [hres EXCEPT ![t] =
                  ProcessFound([rres[t] EXCEPT !.content =
                                    IF rres[t].name \in DOMAIN registry
                                    THEN registry[rres[t].name].content ELSE @],
                               hreq[t].user_input)]
    /\ hpc' = [hpc EXCEPT ![t] = "none"]
    /\ rres' = [rres EXCEPT ![t] = None]
    /\ UNCHANGED <<registry, lock, rpc, rop, opsDone, ghost, hreq, hseen, watchVars, loadVars, serverVars, todoVars>>

\* `if not cmd:` is false: the rest of process_prompt runs on the record.
ProcessPromptFound(t) ==
    /\ hpc[t] = "get" /\ rpc[t] = "idle"
    /\ rres[t] # None
    /\ hres' = [hres EXCEPT ![t] = ProcessFound(rres[t], hreq[t].user_input)]
    /\ hpc' = [hpc EXCEPT ![t] = "none"]
    /\ rres' = [rres EXCEPT ![t] = None]
    /\ UNCHANGED <<registry, lock, rpc, rop, opsDone, ghost, hreq, hseen, watchVars, loadVars, serverVars, todoVars>>

\* `if not cmd:` is true: available = self.registry.list_commands()
ProcessPromptMissing(t) ==
    /\ hpc[t] = "get" /\ rpc[t] = "idle"
    /\ rres[t] = None
    /\ Enter(t, "list_commands", None)
    /\ hpc' = [hpc EXCEPT ![t] = "list"]
    /\ rres' = [rres EXCEPT ![t] = None]
    /\ UNCHANGED <<registry, lock, opsDone, ghost, hreq, hres, hseen, watchVars, loadVars, serverVars, todoVars>>

\* raise CommandNotFoundError(command_name, available)
ProcessPromptRaise(t) ==
    /\ hpc[t] = "list" /\ rpc[t] = "idle"
    /\ hres' = [hres EXCEPT ![t] = CommandNotFoundError(hreq[t].command_name, rres[t])]
    /\ hpc' = [hpc EXCEPT ![t] = "none"]
    /\ rres' = [rres EXCEPT ![t] = None]
    /\ UNCHANGED <<registry, lock, rpc, rop, opsDone, ghost, hreq, hseen, watchVars, loadVars, serverVars, todoVars>>

----------------------------------------------------------------------------
(* validate_command_name (validators.py) *)

\* The characters str.strip() removes.
WhiteSpace == {9, 10, 11, 12, 13, 28, 29, 30, 31, 32, 133, 160}

\* name.strip() left out: the name is taken as it is.
Unstripped(s) == s

\* name.strip()
Strip(s) ==
    LET K == {i \in 1..Len(s) : s[i] \notin WhiteSpace}
    IN  IF K = {} THEN << >>
        ELSE SubSeq(s, CHOOSE i \in K : \A k \in K : i <= k,
                       CHOOSE j \in K : \A k \in K : k <= j)

\* COMMAND_NAME_PATTERN.match(name): ^[a-zA-Z][a-zA-Z0-9._-]*$, where "$" also
\* matches in front of one final newline.
MatchesNamePattern(n) ==
    LET m == IF n # << >> /\ n[Len(n)] = 10 THEN SubSeq(n, 1, Len(n) - 1) ELSE n
        Letters == (65..90) \cup (97..122)
    IN  /\ m # << >>
        /\ m[1] \in Letters
        /\ \A i \in 2..Len(m) : m[i] \in Letters \cup (48..57) \cup {46, 95, 45}

ValueError(message) == [kind |-> "ValueError", message |-> message]

validate_command_name(name) ==
    LET n == Strip(name)
    IN  IF n = << >> THEN ValueError("Command name cannot be empty")
        ELSE IF Contains(n, <<47>>) \/ Contains(n, <<92>>)
             THEN ValueError("Command name cannot contain path separators")
        ELSE IF ~MatchesNamePattern(n) THEN ValueError("Invalid command name format")
        ELSE Returned(n)

\* No call of validate_command_name is under way.
NoCheck == [pc |-> "none", name |-> << >>, result |-> None]

\* validate_command_name(name) returns or raises.
ValidateName ==
    /\ nameCheck.pc = "call"
    /\ nameCheck' = [nameCheck EXCEPT !.pc = "done",
                                      !.result = validate_command_name(nameCheck.name)]
    /\ UNCHANGED <<regVars, watchVars, entry, loader, serverVars, todoVars>>

----------------------------------------------------------------------------
(* CommandLoader (loader.py) *)

\* Files of the commands directory: "a.md"; a sub-directory "d.md"; a file "b".
WatchedFile == NameA \o MdSuffix
DirPath     == <<100>> \o MdSuffix
OtherFile   == NameB

\* The commands directory "c" and the path of a file in it.
CommandsDir == <<99>>
PathOf(p) == CommandsDir \o <<47>> \o p

\* What a file holds, as far as parse_command_file looks at it: whether
\* frontmatter.load reads it, what its front matter gives for "description" and
\* "handoffs", and the text after the front matter.
FileOf(load, description, handoffs, content) ==
    [load |-> load, description |-> description, handoffs |-> handoffs,
     content |-> content]

\* A file with a description, no handoffs and the body b.
GoodFile(b) == FileOf("ok", "str", "absent", b)

\* Path.stem of a name that ends in ".md"; ".md" itself has no suffix.
Stem(p) == IF Len(p) = Len(MdSuffix) THEN p ELSE SubSeq(p, 1, Len(p) - Len(MdSuffix))

CommandParseError(file_path, parse_error) ==
    [kind |-> "CommandParseError", file_path |-> file_path, parse_error |-> parse_error]

Raised(class) == [kind |-> class]

Parsed(definition) == [kind |-> "return", definition |-> definition]

\* validate_yaml_frontmatter(frontmatter, file_path): the first failing test, or
\* what iterating a handoffs value that is no collection raises.
validate_yaml_frontmatter(f, file_path) ==
    IF f.description = "None"
    THEN CommandParseError(file_path, "Missing required field: 'description'")
    ELSE IF f.description = "int"
    THEN CommandParseError(file_path, "'description' must be a string")
    ELSE IF f.description = "blank"
    THEN CommandParseError(file_path, "'description' cannot be empty")
    ELSE IF f.handoffs = "str"
    THEN CommandParseError(file_path, "'handoffs' must be a list")
    ELSE IF f.handoffs = "null" THEN Raised("TypeError")
    ELSE IF f.handoffs = "item_str"
    THEN CommandParseError(file_path, "Handoff at index 0 must be an object")
    ELSE IF f.handoffs = "no_label"
    THEN CommandParseError(file_path, "Handoff 0 missing required field: 'label'")
    ELSE Raised("none")

\* The try block of parse_command_file: the definition, or the first exception.
ParseBody(p, f) ==
    IF f.load # "ok" THEN Raised(f.load)
    ELSE LET v == validate_yaml_frontmatter(f, PathOf(p))
             n == validate_command_name(Stem(p))
         IN  IF v.kind # "none" THEN v
             ELSE IF f.handoffs = "empty_dict" THEN Raised("ValidationError")
             ELSE IF n.kind # "return" THEN n
             ELSE Parsed(MkCommand(n.text, f.content))

\* parse_command_file without its last except clause.
ParseUnconverted(p, f) ==
    LET r == ParseBody(p, f)
    IN  IF r.kind \in {"return", "CommandParseError"} THEN r
        ELSE IF r.kind = "YAMLError" THEN CommandParseError(PathOf(p), "YAML parsing error")
        ELSE r

\* parse_command_file: CommandParseError is re-raised, YAMLError and every other
\* Exception are converted.
parse_command_file(p, f) ==
    LET r == ParseBody(p, f)
    IN  IF r.kind \in {"return", "CommandParseError"} THEN r
        ELSE IF r.kind = "YAMLError" THEN CommandParseError(PathOf(p), "YAML parsing error")
        ELSE CommandParseError(PathOf(p), "Unexpected error")

\* discover_commands: self.commands_dir.glob("*.md")
discover_commands(d) == {q \in DOMAIN d : EndsWith(q, MdSuffix)}

\* load_all_commands on a directory whose files give distinct names: one record
\* per *.md file that parses, keyed by its name.
LoadAllCommands(d) ==
    MapOf({r.definition : r \in {x \in {parse_command_file(p, d[p]) : p \in discover_commands(d)} :
                                     x.kind = "return"}})

DirectoryNotFoundError(path) == [kind |-> "DirectoryNotFoundError", path |-> path]

NoLoader == [pc |-> "none", error |-> None, todo |-> {}, commands |-> EmptyMap,
             parsed |-> None]

\* The files and contents of the directory: the names "a.md", " a.md", "1a.md"
\* and "b", holding a good file or one with a single defect.
LoaderPaths == {WatchedFile, <<32>> \o WatchedFile, <<49>> \o WatchedFile, OtherFile}

FileKinds ==
    {GoodFile(b) : b \in Bodies}
        \cup {FileOf(l, "str", "absent", BodyPlain) : l \in {"YAMLError", "OSError"}}
        \cup {FileOf("ok", d, "absent", BodyPlain) : d \in {"None", "int", "blank"}}
        \cup {FileOf("ok", "str", h, BodyPlain) :
                h \in {"list", "str", "null", "empty_dict", "item_str", "no_label"}}

MaxFiles == 2

\* A file is written into the directory; the directory is stable while a thread
\* is inside load_all_commands.
PutFile ==
    /\ loader.pc \in {"none", "ready"}
    /\ entry = "dir"
    /\ \E p \in LoaderPaths, f \in FileKinds :
          /\ p \in DOMAIN disk \/ Cardinality(DOMAIN disk) < MaxFiles
          /\ disk' = DictPut(disk, p, f)
    /\ UNCHANGED <<regVars, now, observer, event_handler, starts, mpc, obs, queue,
                   last_reload_time, timer_ref, pending_reload, epc, ect, esnap,
                   timers, calls, emitted, hist, entry, loader, nameCheck, serverVars, todoVars>>

\* The directory is removed with all it holds.
RemoveDir ==
    /\ loader.pc \in {"none", "ready"}
    /\ entry = "dir"
    /\ entry' = "missing"
    /\ disk' = EmptyMap
    /\ UNCHANGED <<regVars, now, observer, event_handler, starts, mpc, obs, queue,
                   last_reload_time, timer_ref, pending_reload, epc, ect, esnap,
                   timers, calls, emitted, hist, loader, nameCheck, serverVars, todoVars>>

\* A regular file or an empty directory appears at the path.
MakeEntry ==
    /\ loader.pc \in {"none", "ready"}
    /\ entry = "missing"
    /\ entry' \in {"file", "dir"}
    /\ UNCHANGED <<regVars, watchVars, loader, nameCheck, serverVars, todoVars>>

\* CommandLoader(commands_dir) without the is_dir() test.
ConstructAnyEntry ==
    /\ loader.pc = "none"
    /\ loader' = IF entry = "missing"
                 THEN [loader EXCEPT !.pc = "failed",
                                     !.error = DirectoryNotFoundError(CommandsDir)]
                 ELSE [loader EXCEPT !.pc = "ready"]
    /\ UNCHANGED <<regVars, watchVars, entry, nameCheck, serverVars, todoVars>>

\* CommandLoader(commands_dir)
Construct ==
    /\ loader.pc = "none"
    /\ loader' = IF entry = "missing"
                 THEN [loader EXCEPT !.pc = "failed",
                                     !.error = DirectoryNotFoundError(CommandsDir)]
                 ELSE IF entry # "dir"
                 THEN [loader EXCEPT !.pc = "failed",
                                     !.error = DirectoryNotFoundError(CommandsDir)]
                 ELSE [loader EXCEPT !.pc = "ready"]
    /\ UNCHANGED <<regVars, watchVars, entry, nameCheck, serverVars, todoVars>>

\* load_all_commands starts: commands = {} and markdown_files = discover_commands();
\* glob yields nothing when the path is no directory.
LoadBegin ==
    /\ loader.pc = "ready"
    /\ loader' = [loader EXCEPT !.pc = "loop", !.commands = EmptyMap,
                                !.todo = IF entry = "dir" THEN discover_commands(disk) ELSE {}]
    /\ UNCHANGED <<regVars, watchVars, entry, nameCheck, serverVars, todoVars>>

\* One turn of a loop that gives up at the first file that fails.
LoadFileAborting ==
    /\ loader.pc = "loop"
    /\ \E p \in loader.todo :
          LET r == parse_command_file(p, disk[p])
          IN  loader' =
                IF r.kind = "return"
                THEN [loader EXCEPT !.todo = @ \ {p}, !.parsed = r,
                                    !.commands = DictPut(@, r.definition.name, r.definition)]
                ELSE [loader EXCEPT !.todo = {}, !.parsed = r]
    /\ UNCHANGED <<regVars, watchVars, entry, nameCheck, serverVars, todoVars>>

\* One turn of a loop that files a record under the stem of its file.
LoadFileKeyedByStem ==
    /\ loader.pc = "loop"
    /\ \E p \in loader.todo :
          LET r == parse_command_file(p, disk[p])
          IN  loader' =
                IF r.kind = "return"
                THEN [loader EXCEPT !.todo = @ \ {p}, !.parsed = r,
                                    !.commands = DictPut(@, Stem(p), r.definition)]
                ELSE IF r.kind = "CommandParseError"
                THEN [loader EXCEPT !.todo = @ \ {p}, !.parsed = r]
                ELSE [loader EXCEPT !.pc = "raised", !.error = r, !.parsed = r]
    /\ UNCHANGED <<regVars, watchVars, entry, nameCheck, serverVars, todoVars>>

\* One turn of the loop, the files coming in the order glob gives them.
LoadFile ==
    /\ loader.pc = "loop"
    /\ \E p \in loader.todo :
          LET r == parse_command_file(p, disk[p])
          IN  loader' =
                IF r.kind = "return"
                THEN [loader EXCEPT !.todo = @ \ {p}, !.parsed = r,
                                    !.commands = DictPut(@, r.definition.name, r.definition)]
                ELSE IF r.kind = "CommandParseError"
                THEN [loader EXCEPT !.todo = @ \ {p}, !.parsed = r]
                ELSE [loader EXCEPT !.pc = "raised", !.error = r, !.parsed = r]
    /\ UNCHANGED <<regVars, watchVars, entry, nameCheck, serverVars, todoVars>>

\* return commands
LoadEnd ==
    /\ loader.pc = "loop"
    /\ loader.todo = {}
    /\ loader' = [loader EXCEPT !.pc = "returned"]
    /\ UNCHANGED <<regVars, watchVars, entry, nameCheck, serverVars, todoVars>>

\* _registry.update_all(commands) with the map load_all_commands returned; the
\* locals of the call are gone and the loader can be called again.
InstallLoaded ==
    /\ loader.pc = "returned"
    /\ lock = 0
    /\ registry' = UpdateAllMap(registry, loader.commands)
    /\ ghost' = UpdateAllMap(registry, loader.commands)
    /\ loader' = [NoLoader EXCEPT !.pc = "ready"]
    /\ UNCHANGED <<lock, rpc, rop, rres, opsDone, hpc, hreq, hres, hseen>>
    /\ UNCHANGED <<watchVars, entry, nameCheck, serverVars, todoVars>>

InitLoader == entry = "dir" /\ loader = NoLoader /\ nameCheck = NoCheck

\* No call of the task service yet.
NoTaskCall == [op |-> "none", task_id |-> 0, result |-> None]

\* The modules as imported: no prompt registered, tasks = {} and next_id = 1.
InitModules ==
    /\ prompts = {}
    /\ tasks = EmptyMap
    /\ next_id = 1
    /\ lastCall = NoTaskCall
    /\ issued = {}

----------------------------------------------------------------------------
(* CommandFileHandler and FileWatcher (watcher.py) *)

\* debounce_seconds and the join timeout of stop() (5.0 s), in clock ticks of
\* 5/3 s: a watcher constructed with debounce_seconds = 10/3.
DebounceWindow == 2
JoinTimeout == 3

MaxStarts == 1
MaxTimers == 2
MaxTime == 5
MaxEvents == 5
MaxQueue == 1
WatcherEvents == 3
FilterEvents == 3

Handlers == 1..MaxStarts
TimerIds == 1..MaxTimers

\* time.time() is far beyond one debounce window after the epoch.
StartTime == DebounceWindow

NoTimer == [state |-> "unused", deadline |-> 0, owner |-> 0, snap |-> EmptyMap]

NoHist == [firstEv |-> -1, lastEv |-> -1, gapsOK |-> TRUE, lastDeferred |-> -1,
           raised |-> FALSE, ignored |-> FALSE, aborted |-> FALSE]

\* CommandFileHandler.__init__ for handler h
NewHandler(h) ==
    /\ last_reload_time' = [last_reload_time EXCEPT ![h] = 0]
    /\ timer_ref' = [timer_ref EXCEPT ![h] = 0]
    /\ pending_reload' = [pending_reload EXCEPT ![h] = FALSE]

\* threading.Timer.is_alive(): started and not yet finished
IsAlive(k) == timers[k].state \in {"waiting", "run_load", "run_cb", "run_clear", "run_set"}

\* threading.Timer.cancel(): only a timer still waiting is stopped
Cancelled(k) ==
    IF timers[k].state = "waiting" THEN [timers EXCEPT ![k] = NoTimer] ELSE timers

\* A filter that forgets directories: a mutation of the event filter.
QualifiesAnyMd(e) == EndsWith(e.src_path, MdSuffix)

\* on_created/on_modified/on_deleted: only files whose path ends in ".md"
Qualifies(e) == ~e.is_directory /\ EndsWith(e.src_path, MdSuffix)

\* A test that reloads at once on every event: a mutation of the debounce test.
WindowAlwaysPassed(current_time, last) == TRUE

\* _trigger_immediate_reload's test of the debounce window
WindowPassed(current_time, last) == current_time - last >= DebounceWindow

\* What `except Exception` does with a callback's exception: execution goes on at pc.
CaughtThen(pc) == pc

\* The deadline of a Timer started now
DeadlineFrom(t) == t + DebounceWindow

\* start() refusing to start builds a handler all the same: a mutation.
RebuildHandler(h) == NewHandler(h)

\* `raise RuntimeError` is the first statement of start() to act: handler h stays.
KeepHandler(h) == UNCHANGED <<last_reload_time, timer_ref, pending_reload, loadVars, serverVars, todoVars>>

\* stop() keeping the observer whose thread did not end: a mutation.
KeptIfAlive(h, alive) == IF alive THEN h ELSE 0

\* self.observer = None and self.event_handler = None, whatever join() achieved
Cleared(h, alive) == 0

Unchanged_FileWatcher == UNCHANGED <<observer, event_handler, starts, mpc, obs>>
Unchanged_Debounce == UNCHANGED <<last_reload_time, timer_ref, pending_reload>>

\* The file system reports event e to every running observer.
Emit(e) ==
    /\ queue' = [h \in Handlers |-> IF obs[h] = "running" THEN Append(queue[h], e) ELSE queue[h]]
    /\ emitted' = emitted + 1

\* No thread is between two statements of the debounce code.  The file system
\* is read only by the reload callback and the event queue only by the observer
\* thread between two events, so a change of the directory is taken here.
Settled ==
    /\ \A h \in Handlers : epc[h] \in {"idle", "imm_load", "imm_cb", "crashed"}
    /\ \A k \in TimerIds : timers[k].state \in {"unused", "waiting", "run_load", "run_cb"}

CanEmit(limit) ==
    /\ emitted < limit
    /\ Settled
    /\ \A h \in Handlers : Len(queue[h]) < MaxQueue

Event(kind, is_directory, src_path) ==
    [kind |-> kind, is_directory |-> is_directory, src_path |-> src_path]

\* A command file is created.
FileCreated(limit) ==
    /\ CanEmit(limit)
    /\ WatchedFile \notin DOMAIN disk
    /\ \E b \in Bodies : disk' = DictPut(disk, WatchedFile, GoodFile(b))
    /\ Emit(Event("created", FALSE, WatchedFile))
    /\ UNCHANGED <<regVars, now, last_reload_time, timer_ref, pending_reload, epc, ect,
                   esnap, timers, calls, hist, loadVars, serverVars, todoVars>>
    /\ Unchanged_FileWatcher

\* A command file is rewritten.
FileModified(limit) ==
    /\ CanEmit(limit)
    /\ WatchedFile \in DOMAIN disk
    /\ \E b \in Bodies \ {disk[WatchedFile].content} :
          disk' = DictPut(disk, WatchedFile, GoodFile(b))
    /\ Emit(Event("modified", FALSE, WatchedFile))
    /\ UNCHANGED <<regVars, now, last_reload_time, timer_ref, pending_reload, epc, ect,
                   esnap, timers, calls, hist, loadVars, serverVars, todoVars>>
    /\ Unchanged_FileWatcher

\* A command file is removed.
FileDeleted(limit) ==
    /\ CanEmit(limit)
    /\ WatchedFile \in DOMAIN disk
    /\ disk' = [p \in DOMAIN disk \ {WatchedFile} |-> disk[p]]
    /\ Emit(Event("deleted", FALSE, WatchedFile))
    /\ UNCHANGED <<regVars, now, last_reload_time, timer_ref, pending_reload, epc, ect,
                   esnap, timers, calls, hist, loadVars, serverVars, todoVars>>
    /\ Unchanged_FileWatcher

\* Something else changes: a sub-directory, or a file that is no command file.
OtherEvent(limit) ==
    /\ CanEmit(limit)
    /\ \E kind \in {"created", "modified", "deleted"} :
          \/ Emit(Event(kind, TRUE, DirPath))
          \/ Emit(Event(kind, FALSE, OtherFile))
    /\ UNCHANGED <<regVars, now, disk, last_reload_time, timer_ref, pending_reload, epc,
                   ect, esnap, timers, calls, hist, loadVars, serverVars, todoVars>>
    /\ Unchanged_FileWatcher

\* What the history remembers of a qualifying event handled at time t.
Remember(t, deferred) ==
    hist' = [hist EXCEPT
               !.firstEv = IF hist.firstEv = -1 THEN t ELSE @,
               !.gapsOK = @ /\ (hist.lastEv = -1 \/ t - hist.lastEv < DebounceWindow),
               !.lastEv = t,
               !.lastDeferred = IF deferred THEN t ELSE @]

\* on_created / on_modified / on_deleted up to the debounce test of
\* _trigger_immediate_reload: the observer thread of handler h takes the next event.
Dispatch(h, kind) ==
    /\ obs[h] = "running"
    /\ epc[h] = "idle"
    /\ queue[h] # <<>>
    /\ Head(queue[h]).kind = kind
    /\ queue' = [queue EXCEPT ![h] = Tail(@)]
    /\ IF Qualifies(Head(queue[h]))
       THEN /\ ect' = [ect EXCEPT ![h] = now]
            /\ IF WindowPassed(now, last_reload_time[h])
               THEN /\ epc' = [epc EXCEPT ![h] = "imm_load"]
                    /\ calls' = [calls EXCEPT ![h] = @ + 1]
                    /\ Remember(now, FALSE)
               ELSE /\ epc' = [epc EXCEPT ![h] = "sch_chk"]
                    /\ Remember(now, TRUE)
                    /\ UNCHANGED calls
       ELSE /\ hist' = [hist EXCEPT !.ignored = TRUE]
            /\ UNCHANGED <<ect, epc, calls, loadVars, serverVars, todoVars>>
    /\ UNCHANGED <<regVars, now, disk, esnap, timers, emitted, loadVars, serverVars, todoVars>>
    /\ Unchanged_Debounce
    /\ Unchanged_FileWatcher

OnCreated(h)  == Dispatch(h, "created")
OnModified(h) == Dispatch(h, "modified")
OnDeleted(h)  == Dispatch(h, "deleted")

\* reload_callback on the observer thread: load_all_commands reads the directory.
ImmediateLoad(h) ==
    /\ epc[h] = "imm_load"
    /\ esnap' = [esnap EXCEPT ![h] = LoadAllCommands(disk)]
    /\ epc' = [epc EXCEPT ![h] = "imm_cb"]
    /\ UNCHANGED <<regVars, now, disk, queue, ect, timers, calls, emitted, hist, loadVars, serverVars, todoVars>>
    /\ Unchanged_Debounce
    /\ Unchanged_FileWatcher

\* reload_callback raises; `except Exception` logs it.
ImmediateRaise(h) ==
    /\ epc[h] = "imm_load"
    /\ epc' = [epc EXCEPT ![h] = CaughtThen("imm_set")]
    /\ hist' = [hist EXCEPT !.raised = TRUE]
    /\ UNCHANGED <<regVars, now, disk, queue, ect, esnap, timers, calls, emitted, loadVars, serverVars, todoVars>>
    /\ Unchanged_Debounce
    /\ Unchanged_FileWatcher

\* reload_callback on the observer thread: update_all installs what was loaded.
ImmediateReturn(h) ==
    /\ epc[h] = "imm_cb"
    /\ lock = 0
    /\ registry' = UpdateAllMap(registry, esnap[h])
    /\ ghost' = UpdateAllMap(registry, esnap[h])
    /\ esnap' = [esnap EXCEPT ![h] = EmptyMap]
    /\ epc' = [epc EXCEPT ![h] = "imm_set"]
    /\ UNCHANGED <<lock, rpc, rop, rres, opsDone, hpc, hreq, hres, hseen, loadVars, serverVars, todoVars>>
    /\ UNCHANGED <<now, disk, queue, ect, timers, calls, emitted, hist, loadVars, serverVars, todoVars>>
    /\ Unchanged_Debounce
    /\ Unchanged_FileWatcher

\* self._last_reload_time = current_time
ImmediateSetTime(h) ==
    /\ epc[h] = "imm_set"
    /\ last_reload_time' = [last_reload_time EXCEPT ![h] = ect[h]]
    /\ epc' = [epc EXCEPT ![h] = "imm_chk"]
    /\ UNCHANGED <<regVars, now, disk, queue, timer_ref, pending_reload, ect, esnap,
                   timers, calls, emitted, hist, loadVars, serverVars, todoVars>>
    /\ Unchanged_FileWatcher

\* `if self._timer`: the first read of the handle; without one, _pending_reload = False.
ImmediateCheck(h) ==
    /\ epc[h] = "imm_chk"
    /\ IF timer_ref[h] # 0
       THEN epc' = [epc EXCEPT ![h] = "imm_alive"] /\ UNCHANGED pending_reload
       ELSE /\ epc' = [epc EXCEPT ![h] = "idle"]
            /\ pending_reload' = [pending_reload EXCEPT ![h] = FALSE]
    /\ UNCHANGED <<regVars, now, disk, queue, last_reload_time, timer_ref, ect, esnap,
                   timers, calls, emitted, hist, loadVars, serverVars, todoVars>>
    /\ Unchanged_FileWatcher

\* `self._timer.is_alive()`: the second read; None has no is_alive (AttributeError).
ImmediateAlive(h) ==
    /\ epc[h] = "imm_alive"
    /\ IF timer_ref[h] = 0
       THEN epc' = [epc EXCEPT ![h] = "crashed"] /\ UNCHANGED pending_reload
       ELSE IF IsAlive(timer_ref[h])
            THEN epc' = [epc EXCEPT ![h] = "imm_cancel"] /\ UNCHANGED pending_reload
            ELSE /\ epc' = [epc EXCEPT ![h] = "idle"]
                 /\ pending_reload' = [pending_reload EXCEPT ![h] = FALSE]
    /\ UNCHANGED <<regVars, now, disk, queue, last_reload_time, timer_ref, ect, esnap,
                   timers, calls, emitted, hist, loadVars, serverVars, todoVars>>
    /\ Unchanged_FileWatcher

\* `self._timer.cancel()`, the third read, then self._timer = None and
\* _pending_reload = False.
ImmediateCancel(h) ==
    /\ epc[h] = "imm_cancel"
    /\ IF timer_ref[h] = 0
       THEN /\ epc' = [epc EXCEPT ![h] = "crashed"]
            /\ UNCHANGED <<timers, timer_ref, pending_reload, loadVars, serverVars, todoVars>>
       ELSE /\ timers' = Cancelled(timer_ref[h])
            /\ timer_ref' = [timer_ref EXCEPT ![h] = 0]
            /\ pending_reload' = [pending_reload EXCEPT ![h] = FALSE]
            /\ epc' = [epc EXCEPT ![h] = "idle"]
    /\ UNCHANGED <<regVars, now, disk, queue, last_reload_time, ect, esnap, calls,
                   emitted, hist, loadVars, serverVars, todoVars>>
    /\ Unchanged_FileWatcher

\* _schedule_reload, `if self._timer`: the first read of the handle.
ScheduleCheck(h) ==
    /\ epc[h] = "sch_chk"
    /\ epc' = [epc EXCEPT ![h] = IF timer_ref[h] # 0 THEN "sch_alive" ELSE "sch_arm"]
    /\ UNCHANGED <<regVars, now, disk, queue, ect, esnap, timers, calls, emitted, hist, loadVars, serverVars, todoVars>>
    /\ Unchanged_Debounce
    /\ Unchanged_FileWatcher

\* _schedule_reload, `self._timer.is_alive()`: the second read.
ScheduleAlive(h) ==
    /\ epc[h] = "sch_alive"
    /\ epc' = [epc EXCEPT ![h] = IF timer_ref[h] = 0 THEN "crashed"
                                 ELSE IF IsAlive(timer_ref[h]) THEN "sch_cancel"
                                 ELSE "sch_arm"]
    /\ UNCHANGED <<regVars, now, disk, queue, ect, esnap, timers, calls, emitted, hist, loadVars, serverVars, todoVars>>
    /\ Unchanged_Debounce
    /\ Unchanged_FileWatcher

\* _schedule_reload, `self._timer.cancel()`: the third read.
ScheduleCancel(h) ==
    /\ epc[h] = "sch_cancel"
    /\ IF timer_ref[h] = 0
       THEN epc' = [epc EXCEPT ![h] = "crashed"] /\ UNCHANGED timers
       ELSE epc' = [epc EXCEPT ![h] = "sch_arm"] /\ timers' = Cancelled(timer_ref[h])
    /\ UNCHANGED <<regVars, now, disk, queue, ect, esnap, calls, emitted, hist, loadVars, serverVars, todoVars>>
    /\ Unchanged_Debounce
    /\ Unchanged_FileWatcher

\* A Timer object nobody refers to any more
Free(k) == timers[k].state = "unused" /\ \A h \in Handlers : timer_ref[h] # k

\* self._timer = threading.Timer(self.debounce_seconds, trigger_and_clear)
ScheduleArm(h) ==
    /\ epc[h] = "sch_arm"
    /\ \E k \in TimerIds :
          /\ Free(k)
          /\ \A j \in TimerIds : Free(j) => k <= j
          /\ timers' = [timers EXCEPT ![k] = [NoTimer EXCEPT !.state = "created", !.owner = h]]
          /\ timer_ref' = [timer_ref EXCEPT ![h] = k]
    /\ epc' = [epc EXCEPT ![h] = "sch_start"]
    /\ UNCHANGED <<regVars, now, disk, queue, last_reload_time, pending_reload, ect,
                   esnap, calls, emitted, hist, loadVars, serverVars, todoVars>>
    /\ Unchanged_FileWatcher

\* self._timer.start(), one more read of the handle, then _pending_reload = True
ScheduleStart(h) ==
    /\ epc[h] = "sch_start"
    /\ IF timer_ref[h] = 0
       THEN /\ epc' = [epc EXCEPT ![h] = "crashed"]
            /\ timers' = [k \in TimerIds |->
                            IF timers[k].state = "created" /\ timers[k].owner = h
                            THEN NoTimer ELSE timers[k]]
            /\ UNCHANGED pending_reload
       ELSE /\ timers' = [timers EXCEPT ![timer_ref[h]] =
                            [@ EXCEPT !.state = "waiting", !.deadline = DeadlineFrom(now)]]
            /\ pending_reload' = [pending_reload EXCEPT ![h] = TRUE]
            /\ epc' = [epc EXCEPT ![h] = "idle"]
    /\ UNCHANGED <<regVars, now, disk, queue, last_reload_time, timer_ref, ect, esnap,
                   calls, emitted, hist, loadVars, serverVars, todoVars>>
    /\ Unchanged_FileWatcher

\* threading.Timer: the interval has passed, trigger_and_clear starts on its own thread.
TimerFire(k) ==
    /\ timers[k].state = "waiting"
    /\ now >= timers[k].deadline
    /\ timers' = [timers EXCEPT ![k].state = "run_load"]
    /\ calls' = [calls EXCEPT ![timers[k].owner] = @ + 1]
    /\ UNCHANGED <<regVars, now, disk, queue, epc, ect, esnap, emitted, hist, loadVars, serverVars, todoVars>>
    /\ Unchanged_Debounce
    /\ Unchanged_FileWatcher

\* reload_callback on the timer thread: load_all_commands reads the directory.
TimerLoad(k) ==
    /\ timers[k].state = "run_load"
    /\ timers' = [timers EXCEPT ![k].state = "run_cb", ![k].snap = LoadAllCommands(disk)]
    /\ UNCHANGED <<regVars, now, disk, queue, epc, ect, esnap, calls, emitted, hist, loadVars, serverVars, todoVars>>
    /\ Unchanged_Debounce
    /\ Unchanged_FileWatcher

\* reload_callback raises on the timer thread; `except Exception` logs it.
TimerRaise(k) ==
    /\ timers[k].state = "run_load"
    /\ timers' = [timers EXCEPT ![k].state = CaughtThen("run_clear")]
    /\ hist' = [hist EXCEPT !.raised = TRUE]
    /\ UNCHANGED <<regVars, now, disk, queue, epc, ect, esnap, calls, emitted, loadVars, serverVars, todoVars>>
    /\ Unchanged_Debounce
    /\ Unchanged_FileWatcher

\* reload_callback on the timer thread: update_all installs what was loaded.
TimerReturn(k) ==
    /\ timers[k].state = "run_cb"
    /\ lock = 0
    /\ registry' = UpdateAllMap(registry, timers[k].snap)
    /\ ghost' = UpdateAllMap(registry, timers[k].snap)
    /\ timers' = [timers EXCEPT ![k].state = "run_clear", ![k].snap = EmptyMap]
    /\ UNCHANGED <<lock, rpc, rop, rres, opsDone, hpc, hreq, hres, hseen, loadVars, serverVars, todoVars>>
    /\ UNCHANGED <<now, disk, queue, epc, ect, esnap, calls, emitted, hist, loadVars, serverVars, todoVars>>
    /\ Unchanged_Debounce
    /\ Unchanged_FileWatcher

\* trigger_and_clear: self._timer = None
TimerClear(k) ==
    /\ timers[k].state = "run_clear"
    /\ timer_ref' = [timer_ref EXCEPT ![timers[k].owner] = 0]
    /\ timers' = [timers EXCEPT ![k].state = "run_set"]
    /\ UNCHANGED <<regVars, now, disk, queue, last_reload_time, pending_reload, epc, ect,
                   esnap, calls, emitted, hist, loadVars, serverVars, todoVars>>
    /\ Unchanged_FileWatcher

\* trigger_and_clear: self._last_reload_time = time.time(); the thread ends.
TimerSetTime(k) ==
    /\ timers[k].state = "run_set"
    /\ last_reload_time' = [last_reload_time EXCEPT ![timers[k].owner] = now]
    /\ timers' = [timers EXCEPT ![k] = NoTimer]
    /\ UNCHANGED <<regVars, now, disk, queue, timer_ref, pending_reload, epc, ect, esnap,
                   calls, emitted, hist, loadVars, serverVars, todoVars>>
    /\ Unchanged_FileWatcher

\* The observer thread of h is alive.
ThreadAlive(h) == obs[h] \in {"running", "stopping"} /\ epc[h] # "crashed"

\* Only a reload callback, a waiting Timer, a waiting observer thread and
\* join() take time; every other statement is done before the clock moves.
Tick ==
    /\ now < MaxTime
    /\ Settled
    /\ \A h \in Handlers : ~(obs[h] = "stopping" /\ epc[h] = "idle")
    /\ \A k \in TimerIds : timers[k].state = "waiting" => timers[k].deadline > now
    /\ mpc.pc = "join" => ThreadAlive(mpc.h) /\ now < mpc.deadline
    /\ now' = now + 1
    /\ UNCHANGED <<regVars, disk, queue, epc, ect, esnap, timers, calls, emitted, hist, loadVars, serverVars, todoVars>>
    /\ Unchanged_Debounce
    /\ Unchanged_FileWatcher

\* The main thread is back from a call.
Idle(op, res) == [pc |-> "idle", h |-> 0, deadline |-> 0, op |-> op, res |-> res]

\* The main thread calls start() or stop(); neither reads what the handler
\* threads write, so the call is taken when they are between statements.
CanCall == mpc.pc = "idle" /\ Settled

Unchanged_Handlers ==
    UNCHANGED <<regVars, now, disk, queue, epc, ect, esnap, timers, calls, emitted, hist, loadVars, serverVars, todoVars>>

\* FileWatcher.start() when no observer exists
Start ==
    /\ CanCall
    /\ observer = 0
    /\ starts < MaxStarts
    /\ NewHandler(starts + 1)
    /\ event_handler' = starts + 1
    /\ observer' = starts + 1
    /\ obs' = [obs EXCEPT ![starts + 1] = "running"]
    /\ starts' = starts + 1
    /\ mpc' = Idle("start", "started")
    /\ Unchanged_Handlers

\* FileWatcher.start() while an observer exists: RuntimeError
StartFails ==
    /\ CanCall
    /\ observer # 0
    /\ mpc' = Idle("start", "RuntimeError")
    /\ KeepHandler(observer)
    /\ UNCHANGED <<observer, event_handler, starts, obs, loadVars, serverVars, todoVars>>
    /\ Unchanged_Handlers

\* FileWatcher.stop() when no observer exists: a warning, nothing else
StopNotRunning ==
    /\ CanCall
    /\ observer = 0
    /\ mpc' = Idle("stop", "not running")
    /\ UNCHANGED <<observer, event_handler, starts, obs, loadVars, serverVars, todoVars>>
    /\ Unchanged_Debounce
    /\ Unchanged_Handlers

\* FileWatcher.stop(): observer.stop(), then join(timeout=5.0) begins.
StopBegin ==
    /\ CanCall
    /\ observer # 0
    /\ obs' = [obs EXCEPT ![observer] = "stopping"]
    /\ mpc' = [pc |-> "join", h |-> observer, deadline |-> now + JoinTimeout,
               op |-> "stop", res |-> "none"]
    /\ UNCHANGED <<observer, event_handler, starts, loadVars, serverVars, todoVars>>
    /\ Unchanged_Debounce
    /\ Unchanged_Handlers

\* The observer thread sees the stop request between two events and ends.
ObserverExit(h) ==
    /\ obs[h] = "stopping"
    /\ epc[h] = "idle"
    /\ obs' = [obs EXCEPT ![h] = "exited"]
    /\ queue' = [queue EXCEPT ![h] = <<>>]
    /\ UNCHANGED <<regVars, now, disk, observer, event_handler, starts, mpc, epc, ect,
                   esnap, timers, calls, emitted, hist, loadVars, serverVars, todoVars>>
    /\ Unchanged_Debounce

\* join() returns, because the thread ended or the timeout passed;
\* self.observer = None, self.event_handler = None
StopEnd ==
    /\ mpc.pc = "join"
    /\ Settled
    /\ ~ThreadAlive(mpc.h) \/ now >= mpc.deadline
    /\ observer' = Cleared(mpc.h, ThreadAlive(mpc.h))
    /\ event_handler' = Cleared(mpc.h, ThreadAlive(mpc.h))
    /\ mpc' = Idle("stop", IF ThreadAlive(mpc.h) THEN "forced" ELSE "stopped")
    /\ UNCHANGED <<starts, obs, loadVars, serverVars, todoVars>>
    /\ Unchanged_Debounce
    /\ Unchanged_Handlers

\* A FileWatcher that was constructed and never started
InitWatcher ==
    /\ now = StartTime
    /\ disk = EmptyMap
    /\ observer = 0
    /\ event_handler = 0
    /\ starts = 0
    /\ mpc = [pc |-> "idle", h |-> 0, deadline |-> 0, op |-> "none", res |-> "none"]
    /\ obs = [h \in Handlers |-> "none"]
    /\ queue = [h \in Handlers |-> <<>>]
    /\ last_reload_time = [h \in Handlers |-> 0]
    /\ timer_ref = [h \in Handlers |-> 0]
    /\ pending_reload = [h \in Handlers |-> FALSE]
    /\ epc = [h \in Handlers |-> "idle"]
    /\ ect = [h \in Handlers |-> 0]
    /\ esnap = [h \in Handlers |-> EmptyMap]
    /\ timers = [k \in TimerIds |-> NoTimer]
    /\ calls = [h \in Handlers |-> 0]
    /\ emitted = 0
    /\ hist = NoHist

\* The server after startup: commands loaded, the watcher started once.
InitHandler ==
    /\ now = StartTime
    /\ disk = EmptyMap
    /\ observer = 1
    /\ event_handler = 1
    /\ starts = 1
    /\ mpc = [pc |-> "idle", h |-> 0, deadline |-> 0, op |-> "start", res |-> "started"]
    /\ obs = [h \in Handlers |-> IF h = 1 THEN "running" ELSE "none"]
    /\ queue = [h \in Handlers |-> <<>>]
    /\ last_reload_time = [h \in Handlers |-> 0]
    /\ timer_ref = [h \in Handlers |-> 0]
    /\ pending_reload = [h \in Handlers |-> FALSE]
    /\ epc = [h \in Handlers |-> "idle"]
    /\ ect = [h \in Handlers |-> 0]
    /\ esnap = [h \in Handlers |-> EmptyMap]
    /\ timers = [k \in TimerIds |-> NoTimer]
    /\ calls = [h \in Handlers |-> 0]
    /\ emitted = 0
    /\ hist = NoHist

----------------------------------------------------------------------------
(* The registry and its callers: any number of calls, in any interleaving *)

InitRegistry ==
    /\ registry = EmptyMap
    /\ lock = 0
    /\ rpc = [t \in Threads |-> "idle"]
    /\ rop = [t \in Threads |-> NoCall]
    /\ rres = [t \in Threads |-> None]
    /\ opsDone = 0
    /\ ghost = EmptyMap
    /\ hpc = [t \in Threads |-> "none"]
    /\ hreq = [t \in Threads |-> NoRequest]
    /\ hseen = [t \in Threads |-> NotSeen]
    /\ hres = [t \in Threads |-> None]

NextRegistry ==
    \E t \in Threads :
        \/ CallRegister(t)
        \/ CallGet(t)
        \/ CallListCommands(t)
        \/ CallUpdateAll(t)
        \/ CallClear(t)
        \/ CallCount(t)
        \/ Acquire(t)
        \/ Register(t)
        \/ Get(t)
        \/ ListCommands(t)
        \/ UpdateAll(t)
        \/ Clear(t)
        \/ Count(t)
        \/ Release(t)
        \/ ProcessPromptCall(t)
        \/ ProcessPromptFound(t)
        \/ ProcessPromptMissing(t)
        \/ ProcessPromptRaise(t)

\* The registry of a server whose watcher is not started
InitIdle == InitRegistry /\ InitWatcher /\ InitLoader /\ InitModules

SpecRegistry == InitIdle /\ [][NextRegistry]_vars

----------------------------------------------------------------------------
(* The watcher after startup, and its whole life *)

HandlerStep(limit) ==
    \/ FileCreated(limit)
    \/ FileModified(limit)
    \/ FileDeleted(limit)
    \/ Tick
    \/ \E h \in Handlers :
          \/ OnCreated(h)
          \/ OnModified(h)
          \/ OnDeleted(h)
          \/ ImmediateLoad(h)
          \/ ImmediateReturn(h)
          \/ ImmediateSetTime(h)
          \/ ImmediateCheck(h)
          \/ ImmediateAlive(h)
          \/ ImmediateCancel(h)
          \/ ScheduleCheck(h)
          \/ ScheduleAlive(h)
          \/ ScheduleCancel(h)
          \/ ScheduleArm(h)
          \/ ScheduleStart(h)
    \/ \E k \in TimerIds :
          \/ TimerFire(k)
          \/ TimerLoad(k)
          \/ TimerReturn(k)
          \/ TimerClear(k)
          \/ TimerSetTime(k)

\* A reload callback that raises
RaiseStep ==
    \/ \E h \in Handlers : ImmediateRaise(h)
    \/ \E k \in TimerIds : TimerRaise(k)

NextHandler == RaiseStep \/ HandlerStep(MaxEvents)

InitStarted == InitRegistry /\ InitHandler /\ InitLoader /\ InitModules

SpecHandler == InitStarted /\ [][NextHandler]_vars

\* The same handler with events of directories and of other files among them
NextFilter == OtherEvent(FilterEvents) \/ RaiseStep \/ HandlerStep(FilterEvents)

SpecFilter == InitStarted /\ [][NextFilter]_vars

NextWatcher ==
    \/ Start
    \/ StartFails
    \/ StopNotRunning
    \/ StopBegin
    \/ StopEnd
    \/ \E h \in Handlers : ObserverExit(h)
    \/ HandlerStep(WatcherEvents)

SpecWatcher == InitIdle /\ [][NextWatcher]_vars

----------------------------------------------------------------------------
(* The wired server: on_startup, reload_commands as the callback, on_shutdown *)

ServerEvents == 3
ServerRequests == 1

\* register_prompts: one mcp.prompt(name=...) endpoint for every name that
\* list_commands() gives at the time of the call, next to those that exist.
register_prompts(commands) == prompts \cup DOMAIN commands

\* on_startup: _loader = CommandLoader(commands_dir), update_all of what
\* load_all_commands returns, then FileWatcher(...).start(); no other thread of
\* the server exists before start() returns.  The global _loader is None as long
\* as loader.pc is "none".  The last statement is register_prompts().
OnStartup ==
    /\ CanCall
    /\ mpc.op = "none"
    /\ loader.pc = "none" /\ entry = "dir"
    /\ lock = 0
    /\ loader' = [loader EXCEPT !.pc = "ready"]
    /\ registry' = UpdateAllMap(registry, LoadAllCommands(disk))
    /\ ghost' = UpdateAllMap(registry, LoadAllCommands(disk))
    /\ NewHandler(starts + 1)
    /\ event_handler' = starts + 1
    /\ observer' = starts + 1
    /\ obs' = [obs EXCEPT ![starts + 1] = "running"]
    /\ starts' = starts + 1
    /\ mpc' = Idle("startup", "started")
    /\ prompts' = register_prompts(UpdateAllMap(registry, LoadAllCommands(disk)))
    /\ UNCHANGED <<lock, rpc, rop, rres, opsDone, hpc, hreq, hres, hseen>>
    /\ UNCHANGED <<now, disk, queue, epc, ect, esnap, timers, calls, emitted, hist,
                   entry, nameCheck, todoVars>>

\* A reload_commands that installs an empty map when it cannot load.
ImmediateAbortEmptying(h) ==
    /\ epc[h] = "imm_load"
    /\ epc' = [epc EXCEPT ![h] = "imm_set"]
    /\ hist' = [hist EXCEPT !.aborted = TRUE]
    /\ registry' = EmptyMap
    /\ UNCHANGED <<lock, rpc, rop, rres, opsDone, ghost, hpc, hreq, hres, hseen>>
    /\ UNCHANGED <<now, disk, queue, ect, esnap, timers, calls, emitted, loadVars, serverVars, todoVars>>
    /\ Unchanged_Debounce
    /\ Unchanged_FileWatcher

\* reload_commands on the observer thread ends without update_all: _loader is
\* None (a warning and return), or load_all_commands raises and
\* `except Exception` logs it.
ImmediateAbort(h) ==
    /\ epc[h] = "imm_load"
    /\ epc' = [epc EXCEPT ![h] = "imm_set"]
    /\ hist' = [hist EXCEPT !.aborted = TRUE]
    /\ UNCHANGED <<regVars, now, disk, queue, ect, esnap, timers, calls, emitted, loadVars, serverVars, todoVars>>
    /\ Unchanged_Debounce
    /\ Unchanged_FileWatcher

\* reload_commands on the timer thread ends without update_all.
TimerAbort(k) ==
    /\ timers[k].state = "run_load"
    /\ timers' = [timers EXCEPT ![k].state = "run_clear"]
    /\ hist' = [hist EXCEPT !.aborted = TRUE]
    /\ UNCHANGED <<regVars, now, disk, queue, epc, ect, esnap, calls, emitted, loadVars, serverVars, todoVars>>
    /\ Unchanged_Debounce
    /\ Unchanged_FileWatcher

\* on_shutdown after _watcher.stop() returned: _registry.clear()
ShutdownClear ==
    /\ mpc.pc = "idle" /\ mpc.op = "stop"
    /\ lock = 0
    /\ registry' = EmptyMap
    /\ ghost' = EmptyMap
    /\ mpc' = [mpc EXCEPT !.op = "clear"]
    /\ UNCHANGED <<lock, rpc, rop, rres, opsDone, hpc, hreq, hres, hseen>>
    /\ UNCHANGED <<observer, event_handler, starts, obs, loadVars, serverVars, todoVars>>
    /\ Unchanged_Debounce
    /\ Unchanged_Handlers

\* on_shutdown: _loader = None, and on_shutdown returns.
ShutdownEnd ==
    /\ mpc.pc = "idle" /\ mpc.op = "clear"
    /\ loader' = NoLoader
    /\ mpc' = [mpc EXCEPT !.op = "shutdown"]
    /\ UNCHANGED <<regVars, now, disk, queue, epc, ect, esnap, timers, calls, emitted, hist,
                   entry, nameCheck, serverVars, todoVars>>
    /\ UNCHANGED <<observer, event_handler, starts, obs>>
    /\ Unchanged_Debounce

\* reload_commands as the callback of the handler: load_all_commands runs only
\* with a loader, and may raise.
ReloadCommands ==
    \/ \E h \in Handlers : ImmediateAbort(h)
    \/ \E k \in TimerIds : TimerAbort(k)
    \/ \E h \in Handlers : loader.pc # "none" /\ ImmediateLoad(h)
    \/ \E k \in TimerIds : loader.pc # "none" /\ TimerLoad(k)
    \/ \E h \in Handlers : ImmediateReturn(h)
    \/ \E k \in TimerIds : TimerReturn(k)

\* A prompt request served by the handler that on_startup built: the closure
\* of register_prompts calls process_prompt, on one thread of the server.  A
\* closure exists only for a name on_startup found, and the directory holds no
\* other command file than that of command a.
HandleRequest ==
    \/ /\ opsDone < ServerRequests
       /\ ProcessPromptCall(1)
       /\ hreq'[1].command_name = NameA
    \/ Acquire(1)
    \/ Get(1)
    \/ Release(1)
    \/ ProcessPromptFound(1)
    \/ ProcessPromptMissing(1)
    \/ ListCommands(1)
    \/ ProcessPromptRaise(1)

NextServer ==
    \/ OnStartup
    \/ mpc.op = "startup" /\ StopBegin
    \/ StopEnd
    \/ ShutdownClear
    \/ ShutdownEnd
    \/ ReloadCommands
    \/ \E h \in Handlers : ObserverExit(h)
    \/ FileCreated(ServerEvents)
    \/ FileModified(ServerEvents)
    \/ FileDeleted(ServerEvents)
    \/ Tick
    \/ \E h \in Handlers :
          \/ OnCreated(h)
          \/ OnModified(h)
          \/ OnDeleted(h)
          \/ ImmediateSetTime(h)
          \/ ImmediateCheck(h)
          \/ ImmediateAlive(h)
          \/ ImmediateCancel(h)
          \/ ScheduleCheck(h)
          \/ ScheduleAlive(h)
          \/ ScheduleCancel(h)
          \/ ScheduleArm(h)
          \/ ScheduleStart(h)
    \/ \E k \in TimerIds :
          \/ TimerFire(k)
          \/ TimerClear(k)
          \/ TimerSetTime(k)

SpecServer == InitIdle /\ [][NextServer]_vars

\* The server with a client: prompts are requested once the server has started.
NextServing ==
    \/ NextServer
    \/ mpc.op # "none" /\ HandleRequest

SpecServing == InitIdle /\ [][NextServing]_vars

----------------------------------------------------------------------------
(* process_prompt as a function of the record and the input (handler.py) *)

\* Records the loader builds for the bodies "hi", "x$ARGUMENTS", "$ARGUMENTS",
\* "$ARGUMENTS-$ARGUMENTS" and "$ARGUMENTSARGUMENTS".
\* and a record made with the default has_arguments = False for "x$ARGUMENTS".
PromptCommands ==
    {MkCommand(NameA, b) :
        b \in Bodies \cup {ArgToken, ArgToken \o <<45>> \o ArgToken,
                           ArgToken \o Tail(ArgToken)}}
        \cup {[MkCommand(NameA, BodyArgs) EXCEPT !.has_arguments = FALSE]}

\* Texts of at most n pieces, a piece being "$", "${", "}", "a" or "$ARGUMENTS".
RECURSIVE TextsOf(_)
TextsOf(n) ==
    IF n = 0 THEN {<< >>}
    ELSE LET S == TextsOf(n - 1)
         IN  S \cup {s \o p : s \in S,
                                p \in {<<36>>, <<36, 123>>, <<125>>, <<97>>, ArgToken}}

MaxPieces == 4
PromptInputs == TextsOf(MaxPieces)

\* c * n
Repeat(c, n) == SubSeq([i \in 1..n |-> c], 1, n)

\* Bytes of one code point in UTF-8.
Utf8Bytes(c) == IF c < 128 THEN 1 ELSE IF c < 2048 THEN 2 ELSE IF c < 65536 THEN 3 ELSE 4

\* For "a", U+00E9, U+20AC and U+1F600 (1, 2, 3 and 4 bytes): the number of
\* copies that is the longest text within the limit, and one copy more.
BoundaryShapes ==
    {<<c, (MAX_INPUT_SIZE_BYTES \div Utf8Bytes(c)) + d>> :
        c \in {97, 233, 8364, 128512}, d \in {0, 1}}

\* The calls: every command with every short input or none, and the commands
\* "hi" and "$ARGUMENTS" with the inputs around the size limit.
PromptCases ==
    (PromptCommands \X (PromptInputs \cup {NoText}))
        \cup ({MkCommand(NameA, b) : b \in {BodyPlain, ArgToken}}
                 \X {Repeat(sh[1], sh[2]) : sh \in BoundaryShapes})

\* A thread is in process_prompt(cmd.name, user_input) and registry.get has just
\* returned cmd.
InitPrompt ==
    /\ InitWatcher
    /\ InitLoader
    /\ InitModules
    /\ \E t \in Threads, case \in PromptCases :
          /\ registry = MapOf({case[1]})
          /\ ghost = registry
          /\ rres = [u \in Threads |-> IF u = t THEN case[1] ELSE None]
          /\ hpc = [u \in Threads |-> IF u = t THEN "get" ELSE "none"]
          /\ hreq = [u \in Threads |->
                       IF u = t
                       THEN [command_name |-> case[1].name, user_input |-> case[2]]
                       ELSE NoRequest]
          /\ hseen = [u \in Threads |-> IF u = t THEN [NotSeen EXCEPT !.get = registry]
                                        ELSE NotSeen]
    /\ lock = 0
    /\ rpc = [t \in Threads |-> "idle"]
    /\ rop = [t \in Threads |-> NoCall]
    /\ opsDone = 1
    /\ hres = [t \in Threads |-> None]

NextPrompt == \E t \in Threads : ProcessPromptFound(t)

SpecPrompt == InitPrompt /\ [][NextPrompt]_vars

----------------------------------------------------------------------------
(* process_prompt from its first statement, for names the registry holds and
   names it lacks, with inputs on both sides of the size limit *)

SizedInputs ==
    {NoText, ArgToken, Repeat(97, MAX_INPUT_SIZE_BYTES), Repeat(97, MAX_INPUT_SIZE_BYTES + 1)}

\* The registry of the server: empty, or command a with or without the flag.
SizedRegistries ==
    {EmptyMap} \cup {MapOf({MkCommand(NameA, b)}) : b \in Bodies}

\* A thread has called process_prompt(command_name, user_input) and is about
\* to enter registry.get.
InitCalled ==
    /\ InitWatcher
    /\ InitLoader
    /\ InitModules
    /\ registry \in SizedRegistries
    /\ ghost = registry
    /\ \E t \in Threads, n \in LookupNames, inp \in SizedInputs :
          /\ hpc = [u \in Threads |-> IF u = t THEN "get" ELSE "none"]
          /\ rpc = [u \in Threads |-> IF u = t THEN "acquire" ELSE "idle"]
          /\ rop = [u \in Threads |-> IF u = t THEN [op |-> "get", arg |-> n] ELSE NoCall]
          /\ hreq = [u \in Threads |->
                       IF u = t THEN [command_name |-> n, user_input |-> inp]
                       ELSE NoRequest]
    /\ lock = 0
    /\ rres = [t \in Threads |-> None]
    /\ opsDone = 1
    /\ hseen = [t \in Threads |-> NotSeen]
    /\ hres = [t \in Threads |-> None]

NextCalled ==
    \E t \in Threads :
        \/ Acquire(t)
        \/ Get(t)
        \/ ListCommands(t)
        \/ Release(t)
        \/ ProcessPromptFound(t)
        \/ ProcessPromptMissing(t)
        \/ ProcessPromptRaise(t)

SpecCalled == InitCalled /\ [][NextCalled]_vars

----------------------------------------------------------------------------
(* The loader on a directory that is filled before it is loaded *)

NextLoader ==
    \/ PutFile
    \/ RemoveDir
    \/ MakeEntry
    \/ Construct
    \/ LoadBegin
    \/ LoadFile
    \/ LoadEnd
    \/ InstallLoaded

SpecLoader == InitIdle /\ [][NextLoader]_vars

----------------------------------------------------------------------------
(* validate_command_name on names of at most MaxNameLen characters *)

MaxNameLen == 3

\* Names over " ", newline, "a", "Z", "1", ".", "_", "-", "/", "\" and U+00E9, and the
\* names "sp.specify", "cmd_v2", "../escape", "1abc", ".hidden", "-x".
RECURSIVE NamesOf(_)
NamesOf(n) ==
    IF n = 0 THEN {<< >>}
    ELSE LET S == NamesOf(n - 1)
         IN  S \cup {s \o <<c>> : s \in S, c \in {32, 10, 97, 90, 49, 46, 95, 45, 47, 92, 233}}

ExampleNames ==
    {<<115, 112, 46, 115, 112, 101, 99, 105, 102, 121>>, <<99, 109, 100, 95, 118, 50>>,
     <<46, 46, 47, 101, 115, 99, 97, 112, 101>>, <<49, 97, 98, 99>>,
     <<46, 104, 105, 100, 100, 101, 110>>, <<45, 120>>}

\* A caller is about to run validate_command_name on one of these names.
InitNames ==
    /\ InitRegistry
    /\ InitWatcher
    /\ InitModules
    /\ entry = "dir"
    /\ loader = NoLoader
    /\ \E name \in NamesOf(MaxNameLen) \cup ExampleNames :
          nameCheck = [pc |-> "call", name |-> name, result |-> None]

SpecNames == InitNames /\ [][ValidateName]_vars

----------------------------------------------------------------------------
(* The todo task service (src/todo/services/task_service.py): a console    *)
(* application with one thread, every function runs from call to return    *)

MaxFieldLength == 500
MaxCreates == 2

\* A validator returned without raising.
Passed == Raised("none")

\* validate_title; title.strip() == "" holds of a text of white space only.
validate_title(title) ==
    IF title = << >> \/ \A i \in 1..Len(title) : title[i] \in WhiteSpace
    THEN ValueError("Title cannot be empty")
    ELSE IF Len(title) > MaxFieldLength
    THEN ValueError("Title exceeds maximum length of 500 characters")
    ELSE Passed

\* validate_description; NoText is None
validate_description(description) ==
    IF description # NoText /\ Len(description) > MaxFieldLength
    THEN ValueError("Description exceeds maximum length of 500 characters")
    ELSE Passed

TaskNotFoundError(task_id) == [kind |-> "TaskNotFoundError", task_id |-> task_id]

\* Task(id=..., title=..., description=..., status=...); Status.PENDING is
\* "Pending" and Status.COMPLETE "Complete".
Task(id, title, description, status) ==
    [id |-> id, title |-> title, description |-> description, status |-> status]

\* What a function of the service returned.
Gave(value) == [kind |-> "return", value |-> value]

\* Titles and descriptions the caller passes: empty, blank, short, of the
\* greatest length allowed and one longer; None or short or too long.
TitleArgs == {<< >>, <<32>>, <<97>>, Repeat(98, MaxFieldLength), Repeat(98, MaxFieldLength + 1)}
DescriptionArgs == {NoText, <<100>>, Repeat(100, MaxFieldLength + 1)}

\* Ids the caller passes: stored, deleted, or never given out.
TaskIdArgs == 1..(MaxCreates + 1)

\* What lastCall keeps of a call: the function, the id passed (0 for
\* create_task) and what the call returned or raised.
CalledWith(op, task_id, result) == [op |-> op, task_id |-> task_id, result |-> result]

\* A create_task that takes the lowest id that is free.
CreateTaskReusingIds ==
    \E title \in TitleArgs, description \in DescriptionArgs :
        LET task_id == CHOOSE i \in 1..next_id : i \notin DOMAIN tasks /\
                          \A j \in 1..(i - 1) : j \in DOMAIN tasks
        IN  /\ validate_title(title) = Passed
            /\ validate_description(description) = Passed
            /\ next_id <= MaxCreates
            /\ tasks' = DictPut(tasks, task_id, Task(task_id, title, description, "Pending"))
            /\ next_id' = next_id + 1
            /\ issued' = issued \cup {task_id}
            /\ lastCall' = CalledWith("create_task", 0, Gave(task_id))
            /\ UNCHANGED <<regVars, watchVars, loadVars, serverVars>>

\* create_task(title, description)
CreateTask ==
    \E title \in TitleArgs, description \in DescriptionArgs :
        LET v == validate_title(title)
            w == validate_description(description)
            task_id == next_id
        IN  /\ IF v # Passed
               THEN /\ lastCall' = CalledWith("create_task", 0, v)
                    /\ UNCHANGED <<tasks, next_id, issued>>
               ELSE IF w # Passed
               THEN /\ lastCall' = CalledWith("create_task", 0, w)
                    /\ UNCHANGED <<tasks, next_id, issued>>
               ELSE /\ next_id <= MaxCreates
                    /\ tasks' = DictPut(tasks, task_id,
                                        Task(task_id, title, description, "Pending"))
                    /\ next_id' = next_id + 1
                    /\ issued' = issued \cup {task_id}
                    /\ lastCall' =
                          CalledWith("create_task", 0, Gave(task_id))
            /\ UNCHANGED <<regVars, watchVars, loadVars, serverVars>>

\* get_task(task_id): tasks.get(task_id), TaskNotFoundError for None
get_task(task_id) ==
    IF task_id \in DOMAIN tasks THEN Gave(tasks[task_id]) ELSE TaskNotFoundError(task_id)

GetTask ==
    \E task_id \in TaskIdArgs :
        /\ lastCall' = CalledWith("get_task", task_id, get_task(task_id))
        /\ UNCHANGED <<tasks, next_id, issued>>
        /\ UNCHANGED <<regVars, watchVars, loadVars, serverVars>>

\* The outcome of update_task before it stores anything: the first check that
\* fails, or the new Task of dataclasses.replace.
update_task(task_id, title, description) ==
    LET existing_task == get_task(task_id)
    IN  IF existing_task.kind # "return" THEN existing_task
        ELSE IF title = NoText /\ description = NoText
        THEN ValueError("At least one of title or description must be provided")
        ELSE IF title # NoText /\ validate_title(title) # Passed THEN validate_title(title)
        ELSE IF description # NoText /\ validate_description(description) # Passed
        THEN validate_description(description)
        ELSE Gave([existing_task.value EXCEPT
                      !.title = IF title # NoText THEN title ELSE @,
                      !.description = IF description # NoText THEN description ELSE @])

\* update_task(task_id, title, description)
UpdateTask ==
    \E task_id \in TaskIdArgs, title \in TitleArgs \cup {NoText},
       description \in DescriptionArgs :
        LET r == update_task(task_id, title, description)
        IN  /\ lastCall' = CalledWith("update_task", task_id, r)
            /\ tasks' = IF r.kind = "return" THEN DictPut(tasks, task_id, r.value) ELSE tasks
            /\ UNCHANGED <<next_id, issued>>
            /\ UNCHANGED <<regVars, watchVars, loadVars, serverVars>>

\* delete_task(task_id): get_task raises for an id that is not stored, then
\* del tasks[task_id]
DeleteTask ==
    \E task_id \in TaskIdArgs :
        LET r == get_task(task_id)
        IN  /\ lastCall' = CalledWith("delete_task", task_id,
                                      IF r.kind = "return" THEN Gave(None) ELSE r)
            /\ tasks' = IF r.kind = "return"
                        THEN [i \in DOMAIN tasks \ {task_id} |-> tasks[i]]
                        ELSE tasks
            /\ UNCHANGED <<next_id, issued>>
            /\ UNCHANGED <<regVars, watchVars, loadVars, serverVars>>

\* A toggle that also resets the description.
ToggleDroppingDescription(task) ==
    [task EXCEPT !.status = IF @ = "Pending" THEN "Complete" ELSE "Pending",
                 !.description = NoText]

\* dataclasses.replace(existing_task, status=new_status)
Toggled(task) == [task EXCEPT !.status = IF @ = "Pending" THEN "Complete" ELSE "Pending"]

\* toggle_task_status(task_id)
ToggleTaskStatus ==
    \E task_id \in TaskIdArgs :
        LET r == get_task(task_id)
        IN  /\ lastCall' = CalledWith("toggle_task_status", task_id,
                                      IF r.kind = "return" THEN Gave(Toggled(r.value)) ELSE r)
            /\ tasks' = IF r.kind = "return"
                        THEN DictPut(tasks, task_id, Toggled(r.value))
                        ELSE tasks
            /\ UNCHANGED <<next_id, issued>>
            /\ UNCHANGED <<regVars, watchVars, loadVars, serverVars>>

NextTodo ==
    \/ CreateTask
    \/ GetTask
    \/ UpdateTask
    \/ DeleteTask
    \/ ToggleTaskStatus

SpecTodo == InitIdle /\ [][NextTodo]_vars

----------------------------------------------------------------------------
(* Claims about the registry and the prompt handler *)

\* seq lists exactly the elements of S, each once, in ascending order.
IsSortedListOf(seq, S) ==
    /\ Len(seq) = Cardinality(S)
    /\ {seq[i] : i \in 1..Len(seq)} = S
    /\ \A i \in 1..(Len(seq) - 1) : LexLess(seq[i], seq[i + 1])

\* C1: whatever update_all, register and clear calls other threads interleave with it,
\* a read returns a value computed from one whole map, the one the completed writes
\* have installed: list_commands returns exactly its sorted keys, get its entry,
\* count its size; never a mix of an old and a new map.
C1_ReadSeesOneWholeMap ==
    \A t \in Threads :
        rpc[t] = "release" =>
            /\ rop[t].op = "list_commands" => IsSortedListOf(rres[t], DOMAIN ghost)
            /\ rop[t].op = "get" =>
                   rres[t] = (IF rop[t].arg \in DOMAIN ghost THEN ghost[rop[t].arg] ELSE None)
            /\ rop[t].op = "count" => rres[t] = Cardinality(DOMAIN ghost)
            /\ registry = ghost

\* A list_commands of the old map has returned while another thread's update_all of a
\* map with other keys is waiting for the lock.
C1_Witness ==
    \E t, u \in Threads :
        /\ t # u
        /\ rpc[t] = "release" /\ rop[t].op = "list_commands"
        /\ rpc[u] = "acquire" /\ rop[u].op = "update_all"
        /\ DOMAIN ghost # {}
        /\ DOMAIN rop[u].arg \cap DOMAIN ghost = {}
        /\ Len(rres[t]) = Cardinality(DOMAIN ghost)

\* C10: a process_prompt whose lookup found no record ends in CommandNotFoundError for
\* that name, carrying every name the registry held when list_commands ran, ascending,
\* and returns no text; and it raises that error in no other case.
C10_NotFoundListsAll ==
    \A t \in Threads :
        (hpc[t] = "none" /\ hreq[t] # NoRequest) =>
            LET absent == hreq[t].command_name \notin DOMAIN hseen[t].get
            IN  /\ absent =>
                    /\ hres[t].kind = "CommandNotFoundError"
                    /\ hres[t].command_name = hreq[t].command_name
                    /\ IsSortedListOf(hres[t].available_commands, DOMAIN hseen[t].list)
                /\ ~absent => hres[t].kind # "CommandNotFoundError"

\* A lookup of a missing name failed while the registry held two other names.
C10_Witness ==
    \E t \in Threads :
        /\ hpc[t] = "none"
        /\ hres[t].kind = "CommandNotFoundError"
        /\ Len(hres[t].available_commands) = 2

----------------------------------------------------------------------------
(* Claims about the debounce of CommandFileHandler *)

\* Qualifying events handled so far by the handler started at startup
Handled == emitted - Len(queue[1])

\* Every qualifying event so far came less than one window after the first.
WithinOneWindow == hist.firstEv # -1 /\ hist.lastEv - hist.firstEv < DebounceWindow

\* The timers of handler h that wait for their deadline
Armed(h) == {k \in TimerIds : timers[k].state = "waiting" /\ timers[k].owner = h}

\* C2 as stated: events of which every two consecutive ones are less than one
\* debounce window apart cause at most two invocations of the reload callback.
C2_ConsecutiveGaps == hist.gapsOK => calls[1] <= 2

\* C2, amended: events that all come less than one debounce window after the
\* first event cause at most two invocations of the reload callback, the
\* immediate one and the deferred one.
C2_AtMostTwo == WithinOneWindow => calls[1] <= 2

C2_Witness == WithinOneWindow /\ Handled >= 3 /\ calls[1] = 2

\* C3: when the handler has returned from the last event of a burst of deferred
\* events, one timer is armed, the previous ones having been cancelled, and it
\* fires one debounce window after that last event.
C3_OneTimerAfterLast ==
    \A h \in Handlers :
        (epc[h] = "idle" /\ Armed(h) # {}) =>
            /\ Cardinality(Armed(h)) = 1
            /\ \A k \in Armed(h) : timers[k].deadline = hist.lastDeferred + DebounceWindow

\* C4: when the handler returns from an event that found the debounce window
\* passed, the callback has been invoked by it, _last_reload_time is the time of
\* the event and no timer is armed.
C4_ImmediatePost ==
    [][\A h \in Handlers :
          (epc[h] \in {"imm_chk", "imm_alive", "imm_cancel"} /\ epc'[h] \notin {epc[h], "imm_alive", "imm_cancel"}) =>
              /\ epc'[h] = "idle"
              /\ last_reload_time'[h] = ect[h]
              /\ {k \in TimerIds : timers'[k].state = "waiting" /\ timers'[k].owner = h} = {}]_vars

\* Nothing is left to do: no event queued, no handler at work, no timer alive.
Quiescent ==
    /\ \A h \in Handlers : queue[h] = <<>> /\ epc[h] = "idle"
    /\ \A k \in TimerIds : timers[k].state = "unused"

\* C5: once every event has been handled and every timer has fired, with a
\* callback that never raised, the registry holds what load_all_commands
\* returns for the directory as it is.
C5_RegistryIsFinalDirectory ==
    (Quiescent /\ ~hist.raised /\ hist.firstEv # -1) => registry = LoadAllCommands(disk)

\* C6: after the callback raised, the observer thread goes on handling events:
\* no later event handler is cut short by an exception.
C6_HandlerSurvivesRaise ==
    hist.raised => \A h \in Handlers : epc[h] # "crashed"

----------------------------------------------------------------------------
(* Claims about FileWatcher and the event filter *)

\* The main thread comes back from a call with result res in this step.
Completes(res) == mpc' # mpc /\ mpc'.pc = "idle" /\ mpc'.res = res

\* C7: start() while an observer exists raises RuntimeError and changes neither
\* the observer, nor the handler, nor its debounce state; start() starts a
\* watcher only when no observer exists.
C7_StartWhileRunning ==
    [][/\ Completes("RuntimeError") =>
            /\ observer # 0
            /\ UNCHANGED <<observer, event_handler, starts, obs, queue, last_reload_time,
                           timer_ref, pending_reload, timers, epc, calls>>
       /\ Completes("started") => observer = 0 /\ observer' # 0]_vars

C7_Witness ==
    /\ mpc.res = "RuntimeError"
    /\ observer # 0
    /\ last_reload_time[observer] # 0

\* C8: stop() without an observer changes nothing, and after every stop()
\* observer and event_handler are None, also when join() timed out.
C8_StopLeavesNotRunning ==
    /\ [](mpc.pc = "idle" /\ mpc.op = "stop" => observer = 0 /\ event_handler = 0)
    /\ [][Completes("not running") =>
            /\ observer = 0
            /\ UNCHANGED <<regVars, now, disk, observer, event_handler, starts, obs, queue,
                           last_reload_time, timer_ref, pending_reload, epc, ect, esnap,
                           timers, calls, emitted, hist>>]_vars

C8_Witness ==
    /\ mpc.pc = "idle"
    /\ mpc.res = "forced"
    /\ ThreadAlive(starts)
    /\ observer = 0

\* The observer thread of h takes an event of a directory, or of a file whose
\* path does not end in ".md", from its queue in this step.
TakesOther(h) ==
    /\ obs[h] = "running"
    /\ queue[h] # <<>>
    /\ queue'[h] = Tail(queue[h])
    /\ Head(queue[h]).is_directory \/ ~EndsWith(Head(queue[h]).src_path, MdSuffix)

\* C9: an event of a directory, or of a file whose path does not end in ".md",
\* invokes no callback, arms and cancels no timer and leaves _last_reload_time.
C9_OtherEventsIgnored ==
    [][\A h \in Handlers :
          TakesOther(h) =>
              UNCHANGED <<calls, timers, timer_ref, last_reload_time, pending_reload,
                          epc, registry>>]_vars

C9_Witness ==
    /\ hist.ignored
    /\ \E k \in TimerIds : timers[k].state = "waiting"
    /\ \A h \in Handlers : queue[h] = <<>> /\ epc[h] = "idle"

----------------------------------------------------------------------------
(* process_prompt: size limit, substitution, sanitisation *)

\* process_prompt returned or raised in thread t, for a present input.
Finished(t) == hres[t] # None /\ hreq[t].user_input # NoText

\* C11: for an existing command an input whose UTF-8 encoding is at most 102,400
\* bytes is accepted, and one of 102,401 bytes or more is rejected with
\* InputTooLargeError carrying the actual byte count and the maximum 102,400;
\* the size is the byte length, not the number of characters.  The byte count
\* of n copies of a code point is n times the bytes of that code point, and a
\* text of ASCII pieces has as many bytes as characters.
C11_SizeLimitIsInBytes ==
    \A t \in Threads :
        Finished(t) =>
            LET inp == hreq[t].user_input
            IN  /\ inp \in PromptInputs => hres[t].kind = "return"
                /\ \A sh \in BoundaryShapes :
                      (Len(inp) = sh[2] /\ inp[1] = sh[1] /\ inp = Repeat(sh[1], sh[2])) =>
                          LET bytes == sh[2] * Utf8Bytes(sh[1])
                          IN  IF bytes <= MAX_INPUT_SIZE_BYTES
                              THEN hres[t].kind = "return"
                              ELSE hres[t] = InputTooLargeError(bytes, MAX_INPUT_SIZE_BYTES)

\* An input of fewer characters than the limit is rejected for its bytes.
C11_Witness ==
    \E t \in Threads :
        /\ Finished(t)
        /\ hres[t].kind = "InputTooLargeError"
        /\ Len(hreq[t].user_input) < MAX_INPUT_SIZE_BYTES
        /\ hres[t].size > MAX_INPUT_SIZE_BYTES

\* The record process_prompt got from the registry in thread t.
CalledCommand(t) == registry[hreq[t].command_name]

InLimit(inp) == inp = NoText \/ Utf8Len(inp) <= MAX_INPUT_SIZE_BYTES

\* C12 as stated: for a record with has_arguments false, process_prompt returns
\* the body unchanged for any input whatsoever, including absent input.
C12_PlainBodyForAnyInput ==
    \A t \in Threads :
        (hres[t] # None /\ ~CalledCommand(t).has_arguments) =>
            hres[t] = Returned(CalledCommand(t).content)

\* C12 amended: for a record with has_arguments false, process_prompt returns
\* the body unchanged for absent input and for every input of at most 102,400
\* bytes; a larger input raises InputTooLargeError.
C12_PlainBodyForInLimitInput ==
    \A t \in Threads :
        (hres[t] # None /\ ~CalledCommand(t).has_arguments) =>
            IF InLimit(hreq[t].user_input)
            THEN hres[t] = Returned(CalledCommand(t).content)
            ELSE hres[t].kind = "InputTooLargeError"

\* A record without the flag whose body holds the token was called with a
\* present input and returned.
C12_Witness ==
    \E t \in Threads :
        /\ Finished(t)
        /\ ~CalledCommand(t).has_arguments
        /\ Contains(CalledCommand(t).content, ArgToken)
        /\ hres[t].kind = "return"

\* The places of the token in a text; two of them never overlap, as the token
\* holds one "$" only.
TokenPlaces(body) == {i \in 1..Len(body) : MatchAt(body, ArgToken, i)}

\* res is body with the text new in place of every token: each character of
\* body outside the tokens is kept, moved right by the growth of the tokens
\* before it, and new stands where each token stood.
IsSubstitution(res, body, new) ==
    LET P == TokenPlaces(body)
        grow == Len(new) - Len(ArgToken)
        Shift(i) == Cardinality({o \in P : o < i}) * grow
    IN  /\ Len(res) = Len(body) + Cardinality(P) * grow
        /\ \A o \in P : SubSeq(res, o + Shift(o), o + Shift(o) + Len(new) - 1) = new
        /\ \A i \in 1..Len(body) :
              (\A o \in P : i < o \/ i >= o + Len(ArgToken)) => res[i + Shift(i)] = body[i]

\* C13: for a record with has_arguments true and an input within the limit,
\* an absent input gives the body unchanged, and a present input (the empty
\* string included) gives the body with every $ARGUMENTS replaced by
\* sanitize_input(input), in one pass that does not rescan the inserted text.
C13_SubstitutesSanitizedInput ==
    \A t \in Threads :
        (hres[t] # None /\ CalledCommand(t).has_arguments /\ InLimit(hreq[t].user_input)) =>
            /\ hres[t].kind = "return"
            /\ IF hreq[t].user_input = NoText
               THEN hres[t].text = CalledCommand(t).content
               ELSE IsSubstitution(hres[t].text, CalledCommand(t).content,
                                   sanitize_input(hreq[t].user_input))

\* The body "$ARGUMENTS-$ARGUMENTS" was called with an input that holds the
\* token itself.
C13_Witness ==
    \E t \in Threads :
        /\ Finished(t)
        /\ CalledCommand(t).has_arguments
        /\ Cardinality(TokenPlaces(CalledCommand(t).content)) = 2
        /\ Contains(hreq[t].user_input, ArgToken)
        /\ hres[t].kind = "return"

\* The places where a "${...}" construct starts: a dollar, an opening brace,
\* one or more characters other than "}", and a "}".
BracePlaces(text) ==
    {i \in 1..Len(text) :
        /\ MatchAt(text, <<36, 123>>, i)
        /\ \E j \in (i + 3)..Len(text) :
              text[j] = 125 /\ \A k \in (i + 2)..(j - 1) : text[k] # 125}

\* out is text with one backslash put in front of every place of P.
IsEscapedAt(out, text, P) ==
    /\ Len(out) = Len(text) + Cardinality(P)
    /\ \A i \in 1..Len(text) :
          LET at == i + Cardinality({o \in P : o <= i})
          IN  out[at] = text[i] /\ (i \in P => out[at - 1] = 92)

\* sanitize_input(input) is what a call of the command "$ARGUMENTS" returns.
Sanitized(t) ==
    /\ Finished(t)
    /\ CalledCommand(t).has_arguments
    /\ CalledCommand(t).content = ArgToken
    /\ hres[t].kind = "return"

\* C14: sanitize_input(text) is text with one added backslash in front of every
\* occurrence of $ARGUMENTS and of every ${...} construct, every other
\* character unchanged and in order; a text with neither is returned unchanged.
C14_EveryOccurrenceEscaped ==
    \A t \in Threads :
        Sanitized(t) =>
            IsEscapedAt(hres[t].text, hreq[t].user_input,
                        TokenPlaces(hreq[t].user_input) \cup BracePlaces(hreq[t].user_input))

\* C15: for every body that holds $ARGUMENTS and every present input, the text
\* process_prompt returns holds no $ARGUMENTS that is not immediately preceded
\* by a backslash.
C15_NoLivePlaceholder ==
    \A t \in Threads :
        (Finished(t) /\ CalledCommand(t).has_arguments /\ hres[t].kind = "return") =>
            \A i \in TokenPlaces(hres[t].text) : i > 1 /\ hres[t].text[i - 1] = 92

\* The occurrences an escaping pass takes: every token, and every "${...}"
\* construct that does not start inside an earlier one.
EscapedPlaces(text) ==
    TokenPlaces(text) \cup
    {p \in BracePlaces(text) :
        \A q \in BracePlaces(text) : q < p => \E k \in q..p : text[k] = 125}

\* Where the "$" of those occurrences stand once each has its backslash.
ShiftedPlaces(P) == {o + Cardinality({x \in P : x <= o}) : o \in P}

\* C16: sanitize_input is not idempotent: for a text that holds $ARGUMENTS or a
\* ${...} construct, sanitize_input(sanitize_input(text)) is sanitize_input(text)
\* with one further backslash per escaped occurrence, hence different from it;
\* process_prompt applies sanitize_input once, its result holding one backslash
\* per escaped occurrence.
C16_SecondPassEscapesAgain ==
    \A t \in Threads :
        Sanitized(t) =>
            LET text   == hreq[t].user_input
                once   == hres[t].text
                twice  == sanitize_input(once)
                P      == EscapedPlaces(text)
            IN  /\ IsEscapedAt(once, text, P)
                /\ IsEscapedAt(twice, once, ShiftedPlaces(P))
                /\ P # {} => twice # once

\* A text with a token and a construct went through process_prompt.
C16_Witness ==
    \E t \in Threads :
        /\ Sanitized(t)
        /\ TokenPlaces(hreq[t].user_input) # {}
        /\ BracePlaces(hreq[t].user_input) # {}
        /\ Len(sanitize_input(hres[t].text)) = Len(hres[t].text) + 2

----------------------------------------------------------------------------
(* CommandLoader and validate_command_name *)

\* The *.md files of the directory that parse_command_file turns into a record.
ParsingFiles ==
    {p \in DOMAIN disk : EndsWith(p, MdSuffix) /\ parse_command_file(p, disk[p]).kind = "return"}

\* C17: load_all_commands returns normally whatever the directory holds; the
\* map it returns holds exactly the names of the files that parse, each with a
\* record parsed from such a file; a failing file is skipped and never keeps
\* the others out.
C17_LoadsExactlyParsingFiles ==
    /\ loader.pc # "raised"
    /\ loader.pc = "returned" =>
          /\ DOMAIN loader.commands =
                {parse_command_file(p, disk[p]).definition.name : p \in ParsingFiles}
          /\ \A n \in DOMAIN loader.commands :
                \E p \in ParsingFiles :
                    loader.commands[n] = parse_command_file(p, disk[p]).definition

\* load_all_commands returned one command from a directory of two *.md files.
C17_Witness ==
    /\ loader.pc = "returned"
    /\ Cardinality({p \in DOMAIN disk : EndsWith(p, MdSuffix)}) = 2
    /\ Cardinality(ParsingFiles) = 1
    /\ Cardinality(DOMAIN loader.commands) = 1

\* A name as the rule describes it: some part name[i..j] that starts with an
\* ASCII letter and goes on with letters, digits, ".", "_" and "-", with nothing
\* but white space before and after it.  The set holds that part, or nothing.
WellFormedPart(name) ==
    {SubSeq(name, i, j) : <<i, j>> \in
        {ij \in (1..Len(name)) \X (1..Len(name)) :
            /\ ij[1] <= ij[2]
            /\ \A k \in 1..Len(name) : (k < ij[1] \/ k > ij[2]) => name[k] \in WhiteSpace
            /\ name[ij[1]] \in (65..90) \cup (97..122)
            /\ \A k \in ij[1]..ij[2] :
                  name[k] \in (65..90) \cup (97..122) \cup (48..57) \cup {46, 95, 45}}}

\* What makes parse_command_file fail on the file f at p: it cannot be read,
\* its front matter is no valid metadata, or its stem is no command name.
Defective(p, f) ==
    \/ f.load # "ok"
    \/ f.description # "str"
    \/ f.handoffs \notin {"absent", "list"}
    \/ WellFormedPart(Stem(p)) = {}

Validated == nameCheck.pc = "done"

\* C19: validate_command_name accepts a name exactly when, with the white space
\* around it trimmed, it is not empty, holds neither "/" nor "\", starts with an
\* ASCII letter and goes on with letters, digits, ".", "_" and "-"; it returns
\* the trimmed name and raises ValueError otherwise ("sp.specify", "cmd_v2" and
\* "a" are accepted, "", "../escape", "1abc", ".hidden" and "-x" are rejected);
\* validating an accepted result again returns it unchanged.
C19_AcceptsExactlyWellFormedNames ==
    Validated =>
        LET name == nameCheck.name
            res  == nameCheck.result
        IN  /\ IF WellFormedPart(name) = {}
               THEN res.kind = "ValueError"
               ELSE res.kind = "return" /\ WellFormedPart(name) = {res.text}
            /\ res.kind = "return" => validate_command_name(res.text) = res
            /\ name \in {<<115, 112, 46, 115, 112, 101, 99, 105, 102, 121>>,
                         <<99, 109, 100, 95, 118, 50>>, <<97>>} => res = Returned(name)
            /\ name \in {<< >>, <<46, 46, 47, 101, 115, 99, 97, 112, 101>>,
                         <<49, 97, 98, 99>>, <<46, 104, 105, 100, 100, 101, 110>>,
                         <<45, 120>>} => res.kind = "ValueError"

\* A name with white space on both sides was accepted and returned trimmed.
C19_Witness ==
    /\ Validated
    /\ nameCheck.result.kind = "return"
    /\ Len(nameCheck.name) = Len(nameCheck.result.text) + 2
    /\ nameCheck.name[1] \in WhiteSpace

\* C20: constructing a CommandLoader for a path that is missing or is no
\* directory fails with DirectoryNotFoundError carrying the path; the test is
\* made once, at construction, and no later step raises it; for an existing
\* directory the construction succeeds, and a directory without files loads as
\* the empty map.
C20_DirectoryCheckedAtConstruction ==
    [][/\ (loader.pc = "none" /\ loader'.pc # "none") =>
             IF entry = "dir"
             THEN loader'.pc = "ready" /\ loader'.error = None
             ELSE loader'.pc = "failed"
                    /\ loader'.error = DirectoryNotFoundError(CommandsDir)
       /\ loader.pc # "none" => loader'.error = loader.error
       /\ loader.pc = "failed" => loader' = loader
       /\ (loader'.pc = "returned" /\ DOMAIN disk' = {}) => loader'.commands = EmptyMap
      ]_vars

\* The directory went away after the construction, and load_all_commands
\* returned the empty map.
C20_Witness ==
    /\ loader.pc = "returned"
    /\ entry # "dir"
    /\ loader.error = None
    /\ loader.commands = EmptyMap

----------------------------------------------------------------------------
(* The registry as a map, the wired server *)

\* Thread t runs the body of a registry method in this step.
RunsBody(t) == rpc[t] = "locked" /\ rpc'[t] = "release"

\* C21: after any sequence of register, update_all and clear the registry is a
\* map from name to record: register(c) stores c under its name and leaves the
\* other entries, update_all(m) leaves exactly the entries of m, clear leaves
\* none, and nothing else changes it; list_commands returns the current keys
\* ascending and without duplicates, count their number, get(n) the record
\* last stored under n or None.
C21_BehavesAsMap ==
    [][/\ \A t \in Threads :
            RunsBody(t) =>
                LET op == rop[t].op
                    arg == rop[t].arg
                IN  /\ op = "register" =>
                          /\ DOMAIN registry' = DOMAIN registry \cup {arg.name}
                          /\ registry'[arg.name] = arg
                          /\ \A n \in DOMAIN registry \ {arg.name} : registry'[n] = registry[n]
                    /\ op = "update_all" =>
                          /\ DOMAIN registry' = DOMAIN arg
                          /\ \A n \in DOMAIN arg : registry'[n] = arg[n]
                    /\ op = "clear" => DOMAIN registry' = {}
                    /\ op \in {"get", "list_commands", "count"} => registry' = registry
                    /\ op = "list_commands" => IsSortedListOf(rres'[t], DOMAIN registry)
                    /\ op = "count" => rres'[t] = Cardinality(DOMAIN registry)
                    /\ op = "get" =>
                          rres'[t] = (IF arg \in DOMAIN registry THEN registry[arg] ELSE None)
       /\ registry' # registry => \E t \in Threads : RunsBody(t)
      ]_vars

\* Two register calls, of "a.b" and of "a" in either order, were followed by a
\* list_commands that returned "a", "a.b".
C21_Witness ==
    \E t \in Threads :
        /\ rpc[t] = "release" /\ rop[t].op = "list_commands"
        /\ rres[t] = <<NameA, NameAB>>
        /\ registry[NameA] = MkCommand(NameA, BodyArgs)
        /\ registry[NameAB] = MkCommand(NameAB, BodyPlain)

\* C22: under every interleaving of the event thread and the timer threads of
\* a CommandFileHandler, at most one debounce timer that is neither cancelled
\* nor fired exists at any time.
C22_AtMostOneTimerArmed ==
    \A h \in Handlers : Cardinality(Armed(h)) <= 1

\* process_prompt has ended in thread t, its lookup having found a record.
FoundAndDone(t) ==
    /\ hpc[t] = "none" /\ hreq[t] # NoRequest
    /\ hreq[t].command_name \in DOMAIN hseen[t].get

\* C23: a process_prompt that races a reload computes its result from one
\* version of the record, the entry the registry held for the name in the
\* complete map its single lookup met: flag and body are those of that record,
\* never the flag of one version and the body of another.
C23_OneRecordVersion ==
    \A t \in Threads :
        FoundAndDone(t) =>
            LET c == hseen[t].get[hreq[t].command_name]
            IN  /\ hres[t].kind = "return"
                /\ IF c.has_arguments /\ hreq[t].user_input # NoText
                   THEN IsSubstitution(hres[t].text, c.content,
                                       sanitize_input(hreq[t].user_input))
                   ELSE hres[t].text = c.content

\* The registry's entry for the name was replaced by one with another flag and
\* body between the lookup and the end of process_prompt.
C23_Witness ==
    \E t \in Threads :
        /\ FoundAndDone(t)
        /\ hreq[t].user_input # NoText
        /\ hreq[t].command_name \in DOMAIN registry
        /\ registry[hreq[t].command_name].has_arguments
        /\ ~hseen[t].get[hreq[t].command_name].has_arguments

\* The reload callback is running on the observer thread of h, started at ect[h].
RunsImmediate(h) == epc[h] \in {"imm_load", "imm_cb"}

\* The reload callback is running on the thread of Timer k, started at the
\* deadline of k.
RunsDeferred(k) == timers[k].state \in {"run_load", "run_cb"}

\* C24: two invocations of the reload callback by one handler start at least
\* DebounceWindow apart, the one immediate and the other deferred, or both
\* deferred.
C24_InvocationsOneWindowApart ==
    \A h \in Handlers : \A k \in TimerIds :
        (RunsDeferred(k) /\ timers[k].owner = h) =>
            /\ RunsImmediate(h) =>
                  \/ ect[h] - timers[k].deadline >= DebounceWindow
                  \/ timers[k].deadline - ect[h] >= DebounceWindow
            /\ \A j \in TimerIds \ {k} :
                  (RunsDeferred(j) /\ timers[j].owner = h) =>
                      \/ timers[j].deadline - timers[k].deadline >= DebounceWindow
                      \/ timers[k].deadline - timers[j].deadline >= DebounceWindow

\* on_shutdown has returned.
ShutdownReturned == mpc.pc = "idle" /\ mpc.op = "shutdown"

\* C25: once on_shutdown has returned the registry is empty and stays empty,
\* and the watcher is not running, whatever reload was pending or in flight
\* when it was called.
C25_EmptyAfterShutdown ==
    ShutdownReturned => registry = EmptyMap /\ observer = 0

\* Thread t is inside `with self._lock`.
HoldsLock(t) == rpc[t] \in {"locked", "release"}

\* C26: the bodies of the registry's methods exclude one another, and no
\* register loses an update: its body adds one entry when the name is new and
\* none otherwise, and keeps every other entry, so that concurrent register
\* calls of distinct names raise count() by the number of those names,
\* whatever list_commands and count readers run between them.
C26_NoLostUpdate ==
    [][/\ (\A t, u \in Threads : HoldsLock(t) /\ HoldsLock(u) => t = u)'
       /\ \A t \in Threads :
             RunsBody(t) =>
                IF rop[t].op = "register"
                THEN /\ rop[t].arg.name \in DOMAIN registry'
                     /\ \A n \in DOMAIN registry \ {rop[t].arg.name} :
                           n \in DOMAIN registry' /\ registry'[n] = registry[n]
                     /\ CountOf(registry') =
                           CountOf(registry) +
                              (IF rop[t].arg.name \in DOMAIN registry THEN 0 ELSE 1)
                ELSE rop[t].op \in {"list_commands", "count"} =>
                        /\ registry' = registry
                        /\ rop[t].op = "count" => rres'[t] = Cardinality(DOMAIN registry)]_vars

\* A register has added the second of two distinct names while a reader waits
\* for the lock.
C26_Witness ==
    \E t, u \in Threads :
        /\ rpc[t] = "release" /\ rop[t].op = "register"
        /\ rpc[u] = "acquire" /\ rop[u].op \in {"list_commands", "count"}
        /\ DOMAIN registry = {NameA, NameAB}

\* C27: in the wired server the contents of the registry change only by the
\* update_all of on_startup or of a reload, which installs the whole map that
\* load_all_commands returned, or by the clear of on_shutdown; requests change
\* nothing, no single entry is put or removed and no record is altered.
C27_OnlyWholeMapChanges ==
    [][/\ \A h \in Handlers :
             (epc[h] = "imm_cb" /\ epc'[h] = "imm_set") => registry' = esnap[h]
       /\ \A k \in TimerIds :
             (timers[k].state = "run_cb" /\ timers'[k].state = "run_clear") =>
                registry' = timers[k].snap
       /\ (mpc.op = "none" /\ mpc'.op = "startup") => registry' = LoadAllCommands(disk)
       /\ (mpc.op = "stop" /\ mpc'.op = "clear") => registry' = EmptyMap
       /\ registry' # registry =>
             \/ \E h \in Handlers : epc[h] = "imm_cb" /\ epc'[h] = "imm_set"
             \/ \E k \in TimerIds :
                   timers[k].state = "run_cb" /\ timers'[k].state = "run_clear"
             \/ mpc.op = "none" /\ mpc'.op = "startup"
             \/ mpc.op = "stop" /\ mpc'.op = "clear"]_vars

\* A request was answered from the plain body of command a, and a reload has
\* since replaced the map by one that holds another record for a.
C27_Witness ==
    /\ hres[1] = Returned(BodyPlain)
    /\ hreq[1].command_name = NameA
    /\ NameA \in DOMAIN registry
    /\ registry[NameA] = MkCommand(NameA, BodyArgs)

\* C28: a reload whose load_all_commands raises, or that finds no loader, ends
\* inside reload_commands without touching the registry and without an
\* exception reaching the watcher; only a reload whose load_all_commands has
\* returned the complete map of the directory goes on to update_all, and
\* installs that map.
C28_FailedReloadKeepsRegistry ==
    [][/\ \A h \in Handlers :
             /\ (epc[h] = "imm_load" /\ epc'[h] # "imm_load") =>
                   /\ registry' = registry
                   /\ ~hist'.raised
                   /\ IF epc'[h] = "imm_cb"
                      THEN loader.pc # "none" /\ esnap'[h] = LoadAllCommands(disk)
                      ELSE epc'[h] = "imm_set"
             /\ (epc[h] = "imm_cb" /\ epc'[h] # "imm_cb") => registry' = esnap[h]
       /\ \A k \in TimerIds :
             /\ (timers[k].state = "run_load" /\ timers'[k].state # "run_load") =>
                   /\ registry' = registry
                   /\ ~hist'.raised
                   /\ IF timers'[k].state = "run_cb"
                      THEN loader.pc # "none" /\ timers'[k].snap = LoadAllCommands(disk)
                      ELSE timers'[k].state = "run_clear"
             /\ (timers[k].state = "run_cb" /\ timers'[k].state # "run_cb") =>
                   registry' = timers[k].snap]_vars

\* The first reload, on the observer thread of a server that has a loader, ended
\* without update_all, and the registry still holds what on_startup loaded.
C28_Witness ==
    \E h \in Handlers :
        /\ epc[h] = "imm_set" /\ calls[h] = 1
        /\ hist.aborted
        /\ loader.pc = "ready"
        /\ registry # EmptyMap

\* The metadata of file f breaks a rule: its description is missing, no string
\* or blank, its handoffs are present and not a list, or an entry of the list
\* is no map or lacks a field.
InvalidMetadata(f) ==
    \/ f.description # "str"
    \/ f.handoffs \notin {"absent", "list"}

\* C29: validate_yaml_frontmatter raises CommandParseError for every file the
\* loader parses whose metadata breaks a rule, handoffs that are a falsy value
\* other than a list included, and returns the frontmatter only for metadata
\* that breaks none.
C29_InvalidMetadataRejected ==
    \A p \in discover_commands(disk) :
        disk[p].load = "ok" =>
            LET v == validate_yaml_frontmatter(disk[p], PathOf(p))
            IN  IF InvalidMetadata(disk[p])
                THEN v.kind = "CommandParseError"
                ELSE v = Raised("none")

\* The flag of record c tells whether the token stands somewhere in its content.
FlagMatches(c) == c.has_arguments <=> TokenPlaces(c.content) # {}

\* C30: every record parse_command_file returns has has_arguments true exactly
\* when its content contains $ARGUMENTS, and so has every entry of the map
\* load_all_commands builds for the registry.
C30_FlagIffToken ==
    /\ (loader.parsed # None /\ loader.parsed.kind = "return") =>
          FlagMatches(loader.parsed.definition)
    /\ \A n \in DOMAIN loader.commands : FlagMatches(loader.commands[n])

\* load_all_commands has returned a map whose command a holds the token and
\* has the flag.
C30_Witness ==
    /\ loader.pc = "returned"
    /\ NameA \in DOMAIN loader.commands
    /\ loader.commands[NameA].content = BodyArgs
    /\ loader.commands[NameA].has_arguments
    /\ loader.parsed.kind = "return"

----------------------------------------------------------------------------
(* The todo task service *)

\* The call that has just ended was function op, and it returned.
JustReturned(op) == lastCall'.op = op /\ lastCall'.result.kind = "return"

\* C31: create_task returns 1 first and then, at every success, one more than
\* at the success before, so that an id is greater than every id returned
\* earlier and is not used again after delete_task; every stored task has
\* its key as id.
C31_IdsIncreaseNeverReused ==
    [][/\ JustReturned("create_task") =>
             LET id == lastCall'.result.value
             IN  /\ id = Cardinality(issued) + 1
                 /\ \A j \in issued : id > j
                 /\ id \in DOMAIN tasks' /\ id \notin DOMAIN tasks
                 /\ issued' = issued \cup {id}
       /\ ~JustReturned("create_task") => issued' = issued
       /\ \A i \in DOMAIN tasks' : tasks'[i].id = i /\ i \in issued']_vars

\* Task 1 was deleted and the create_task after it returned 2.
C31_Witness ==
    /\ lastCall.op = "create_task"
    /\ lastCall.result = Gave(2)
    /\ DOMAIN tasks = {2}

\* Every task but the one with key id is stored as before.
OthersKept(id) ==
    /\ DOMAIN tasks' = DOMAIN tasks
    /\ \A i \in DOMAIN tasks \ {id} : tasks'[i] = tasks[i]

\* C32: a call that raises leaves tasks and next_id as they were; get_task,
\* update_task, delete_task and toggle_task_status raise TaskNotFoundError
\* for an id that is not stored; no title or description that the validators
\* refuse gets into the store; toggle_task_status changes the status of the
\* one task and nothing else, update_task its title and description only.
C32_FailuresChangeNothing ==
    [][LET r == lastCall'.result
           id == lastCall'.task_id
       IN  /\ r.kind # "return" => tasks' = tasks /\ next_id' = next_id
           /\ (lastCall'.op # "create_task" /\ id \notin DOMAIN tasks) =>
                 r = TaskNotFoundError(id)
           /\ \A i \in DOMAIN tasks' :
                 /\ validate_title(tasks'[i].title) = Passed
                 /\ validate_description(tasks'[i].description) = Passed
           /\ JustReturned("toggle_task_status") =>
                 /\ OthersKept(id) /\ next_id' = next_id
                 /\ tasks'[id].status # tasks[id].status
                 /\ tasks'[id].status \in {"Pending", "Complete"}
                 /\ tasks'[id] = [tasks[id] EXCEPT !.status = tasks'[id].status]
           /\ JustReturned("update_task") =>
                 /\ OthersKept(id) /\ next_id' = next_id
                 /\ tasks'[id].id = id
                 /\ tasks'[id].status = tasks[id].status]_vars

\* update_task has refused a title that is too long for a task that was
\* completed before, and the store holds a second task.
C32_Witness ==
    /\ lastCall.op = "update_task"
    /\ lastCall.result = ValueError("Title exceeds maximum length of 500 characters")
    /\ lastCall.task_id \in DOMAIN tasks
    /\ tasks[lastCall.task_id].status = "Complete"
    /\ Cardinality(DOMAIN tasks) = 2


(***************************************************************************)
(* Claims read off the code                                                *)
(***************************************************************************)

InList(x, list) == \E i \in 1..Len(list) : list[i] = x

\* C33: the available_commands of a CommandNotFoundError raised by
\* process_prompt never holds the name that was asked for, even when another
\* thread installs a map holding that name between the failed get and
\* list_commands.
C33_MissingNameNotListed ==
    \A t \in Threads :
        hres[t].kind = "CommandNotFoundError" =>
            ~InList(hres[t].command_name, hres[t].available_commands)

\* stop() was called on the watcher run of handler h and has returned.
StopReturned(h) ==
    /\ obs[h] \in {"stopping", "exited"}
    /\ ~(mpc.pc = "join" /\ mpc.h = h)

\* C34: once FileWatcher.stop() has returned, the reload callback is not
\* invoked again by the handler of that watcher run: a debounce timer that is
\* still pending is cancelled or kept from firing.
C34_NoReloadAfterStop ==
    [][\A h \in Handlers : StopReturned(h) => calls'[h] = calls[h]]_vars

\* How many invocations of the reload callback of handler h are in progress
InProgress(h) ==
    Cardinality({k \in TimerIds : RunsDeferred(k) /\ timers[k].owner = h})
        + (IF RunsImmediate(h) THEN 1 ELSE 0)

\* C35: two invocations of the reload callback by one CommandFileHandler never
\* overlap in time: an immediate one on the event thread and a deferred one
\* on a timer thread, or two deferred ones, are never both in progress.
C35_InvocationsNeverOverlap == \A h \in Handlers : InProgress(h) <= 1

\* C36: _last_reload_time of a handler never decreases: the immediate path,
\* which stores the time it read before the callback, and the timer thread,
\* which stores the time after the callback, each store a value that is at
\* least the value they replace, under every interleaving.
C36_LastReloadTimeNeverDecreases ==
    [][\A h \in Handlers : last_reload_time'[h] >= last_reload_time[h]]_vars

\* The key n of map d is the name of its record, and the name is one the
\* pattern ^[a-zA-Z][a-zA-Z0-9._-]*$ matches from its first to its last character.
KeyedByValidName(d) ==
    \A n \in DOMAIN d :
        /\ d[n].name = n
        /\ MatchesNamePattern(n)
        /\ n[Len(n)] # 10

\* The file that the turn of the loading loop just taken has parsed
FileJustParsed == CHOOSE p \in loader.todo : p \notin loader'.todo

ReloadCompleted ==
    \/ \E h \in Handlers : epc[h] = "imm_cb" /\ epc'[h] = "imm_set"
    \/ \E k \in TimerIds : timers[k].state = "run_cb" /\ timers'[k].state = "run_clear"

\* C38: after every completed reload that the watcher triggered, the prompt
\* endpoints registered with the server are those of the names that
\* list_commands() gives.
C38_EndpointsFollowReload ==
    [][ReloadCompleted => prompts' = DOMAIN registry']_vars

\* The input of thread t is present and longer than MAX_INPUT_SIZE_BYTES.
Oversized(t) ==
    /\ hreq[t].user_input # NoText
    /\ Utf8Len(hreq[t].user_input) > MAX_INPUT_SIZE_BYTES

\* The outcome of the finished call of thread t follows the order lookup,
\* size, placeholder.
OrderKept(t) ==
    LET n == hreq[t].command_name
    IN  IF n \notin DOMAIN registry
        THEN hres[t] = CommandNotFoundError(n, ListCommandsOf(registry))
        ELSE IF Oversized(t)
        THEN hres[t] = InputTooLargeError(Utf8Len(hreq[t].user_input),
                                          MAX_INPUT_SIZE_BYTES)
        ELSE /\ hres[t].kind = "return"
             /\ ~registry[n].has_arguments => hres[t].text = registry[n].content

\* C39: process_prompt looks the name up first, checks the size of the input
\* second and handles the placeholder last: a name the registry lacks gives
\* CommandNotFoundError also for an oversized input, a name it holds gives
\* InputTooLargeError for an oversized input whatever the flag of the record,
\* and no step of a call changes the registry.
C39_LookupThenSizeThenFlag ==
    [][/\ registry' = registry
       /\ \A t \in Threads :
             (hpc'[t] = "none" /\ hres'[t] # None) => OrderKept(t)']_vars

\* A call with an oversized input for a name the registry lacks has ended in
\* CommandNotFoundError, while the registry holds another command.
C39_Witness ==
    \E t \in Threads :
        /\ hpc[t] = "none"
        /\ Oversized(t)
        /\ hres[t].kind = "CommandNotFoundError"
        /\ registry # EmptyMap

====
